---------------------------- MODULE Spec2Model ----------------------------
(***************************************************************************)
(* Strange-attractor visualiser: the selection state machine, the live     *)
(* particle field (initParticles / stepParticles / rk4Step), the render    *)
(* loop with its step accumulator and hand interaction, the canvas         *)
(* cleanup, and the hand-tracking hook: setup, teardown, palm metrics and  *)
(* fist detector of the inference loop.                                    *)
(*                                                                         *)
(* Numbers.  A JavaScript number is modelled as a fixed-point integer: the *)
(* integer n stands for the real n / SCALE.  Finite values range over      *)
(* -DBL_MAX .. DBL_MAX; a finite result outside that range overflows to an *)
(* infinity, as a double does.  PInf, NInf and NaN are three integers      *)
(* outside the finite range.  A Float32Array element holds the values of   *)
(* a coarser grid (multiples of F32_GRID) up to F32_MAX: storing rounds.   *)
(***************************************************************************)
EXTENDS Integers, Sequences, FiniteSets, TLC

\* ------------------------------------------------------------------ bounds
SCALE == 1000
DBL_MAX == 1000000000
F32_MAX == 100000000
F32_GRID == 4

\* --------------------------------------------------------- number domain
\* The operations on numbers are functions on Int, so that each argument is
\* evaluated once, when the operation is applied.
PInf == DBL_MAX + 1
NInf == 0 - (DBL_MAX + 1)
NaN == DBL_MAX + 2

isNaN(x) == x = NaN
IsInf(x) == x = PInf \/ x = NInf
isFinite(x) == ~isNaN(x) /\ ~IsInf(x)

Sgn(x) == IF x > 0 THEN 1 ELSE IF x < 0 THEN 0 - 1 ELSE 0
IAbs(x) == IF x < 0 THEN 0 - x ELSE x

\* The fixed-point value of the integer literal n, and of the decimal n/d.
Num(n) == n * SCALE
Lit(n, d) == (2 * n * SCALE + d) \div (2 * d)

\* Overflow of a finite magnitude to the magnitude of an infinity.
Clamp(m) == IF m > DBL_MAX THEN PInf ELSE m

\* a + b
FAdd[a \in Int, b \in Int] ==
    IF isNaN(a) \/ isNaN(b) THEN NaN
    ELSE IF IsInf(a) /\ IsInf(b) THEN (IF a = b THEN a ELSE NaN)
    ELSE IF IsInf(a) THEN a
    ELSE IF IsInf(b) THEN b
    ELSE IF a + b >= 0 THEN Clamp(a + b) ELSE 0 - Clamp(0 - (a + b))

\* -a
FNeg[a \in Int] == IF isNaN(a) THEN NaN ELSE 0 - a

\* a - b
FSub[a \in Int, b \in Int] == FAdd[a, FNeg[b]]

\* |a| * |b| / SCALE for finite magnitudes, rounded to nearest, without
\* leaving the range of 32-bit integers.
MulMag[a \in Nat, b \in Nat] ==
    IF a \div SCALE > 0 /\ b \div SCALE > (DBL_MAX \div SCALE) \div (a \div SCALE)
    THEN PInf
    ELSE Clamp((a \div SCALE) * (b \div SCALE) * SCALE
               + (a \div SCALE) * (b % SCALE) + (a % SCALE) * (b \div SCALE)
               + ((a % SCALE) * (b % SCALE) + SCALE \div 2) \div SCALE)

\* a * b
FMul[a \in Int, b \in Int] ==
    IF isNaN(a) \/ isNaN(b) THEN NaN
    ELSE IF IsInf(a) \/ IsInf(b)
         THEN (IF a = 0 \/ b = 0 THEN NaN ELSE Sgn(a) * Sgn(b) * PInf)
    ELSE Sgn(a) * Sgn(b) * MulMag[IAbs(a), IAbs(b)]

\* |a| / |b| for finite magnitudes, b > 0, rounded to nearest.  A remainder
\* too large to scale exactly is divided at reduced precision.
DivMag[a \in Nat, b \in Nat] ==
    IF a \div b > DBL_MAX \div SCALE THEN PInf
    ELSE IF a % b <= (2 * DBL_MAX) \div SCALE
         THEN Clamp((a \div b) * SCALE + ((a % b) * SCALE + b \div 2) \div b)
         ELSE Clamp((a \div b) * SCALE + (a % b) \div (b \div SCALE))

\* a / b
FDiv[a \in Int, b \in Int] ==
    IF isNaN(a) \/ isNaN(b) THEN NaN
    ELSE IF IsInf(a) THEN (IF IsInf(b) THEN NaN
                           ELSE IF b < 0 THEN 0 - a ELSE a)
    ELSE IF IsInf(b) THEN 0
    ELSE IF b = 0 THEN (IF a = 0 THEN NaN ELSE Sgn(a) * PInf)
    ELSE Sgn(a) * Sgn(b) * DivMag[IAbs(a), IAbs(b)]

\* Math.abs, Math.min, Math.max
MathAbs[x \in Int] == IF isNaN(x) THEN NaN ELSE IAbs(x)
MathMin[a \in Int, b \in Int] ==
    IF isNaN(a) \/ isNaN(b) THEN NaN ELSE IF a < b THEN a ELSE b
MathMax[a \in Int, b \in Int] ==
    IF isNaN(a) \/ isNaN(b) THEN NaN ELSE IF a > b THEN a ELSE b

\* a > b on numbers: false when either side is NaN.
FGt[a \in Int, b \in Int] == ~isNaN(a) /\ ~isNaN(b) /\ a > b

\* Math.sin: NaN outside the finite numbers; on finite x, range reduction
\* to [0, pi] and Bhaskara's rational approximation.
PI == Lit(314159, 100000)
SinHalf[t \in Nat] ==
    (16 * t * (PI - t) + ((5 * PI * PI - 4 * t * (PI - t)) \div SCALE) \div 2)
        \div ((5 * PI * PI - 4 * t * (PI - t)) \div SCALE)
MathSin[x \in Int] ==
    IF ~isFinite(x) THEN NaN
    ELSE IF x % (2 * PI) <= PI THEN SinHalf[x % (2 * PI)]
    ELSE 0 - SinHalf[(x % (2 * PI)) - PI]

\* Storing a number in a Float32Array element: rounding to the coarser
\* grid, overflow to an infinity beyond F32_MAX.
RoundMag[m \in Nat] == F32_GRID * ((m + F32_GRID \div 2) \div F32_GRID)
fround[x \in Int] ==
    IF ~isFinite(x) THEN x
    ELSE IF RoundMag[IAbs(x)] > F32_MAX THEN Sgn(x) * PInf
    ELSE Sgn(x) * RoundMag[IAbs(x)]

\* ------------------------------------------------------------ attractors
KEYS == <<"lorenz", "aizawa", "thomas", "halvorsen", "arneodo">>
N == Len(KEYS)
AttractorKey == {KEYS[i] : i \in 1..N}
Vec3 == Int \X Int \X Int

\* A variant of dt: a step a hundred times too long for the flow.
dtCoarse(key) == Num(1)

dt(key) == IF key = "thomas" THEN Lit(1, 10) ELSE Lit(1, 100)

initial(key) ==
    IF key = "arneodo" THEN <<Lit(1, 10), Lit(1, 10), Lit(1, 10)>>
    ELSE <<Lit(1, 10), 0, 0>>

\* x ** 3, x ** 2
Cube[x \in Int] == FMul[FMul[x, x], x]
Sq[x \in Int] == FMul[x, x]

\* sigma: 10, rho: 28, beta: 8 / 3
deriveLorenz[p \in Vec3] ==
    << FMul[Num(10), FSub[p[2], p[1]]],
       FSub[FMul[p[1], FSub[Num(28), p[3]]], p[2]],
       FSub[FMul[p[1], p[2]], FMul[FDiv[Num(8), Num(3)], p[3]]] >>

\* a: 0.95, b: 0.7, c: 0.6, d: 3.5, e: 0.25, f: 0.1
deriveAizawa[p \in Vec3] ==
    << FSub[FMul[FSub[p[3], Lit(7, 10)], p[1]], FMul[Lit(35, 10), p[2]]],
       FAdd[FMul[Lit(35, 10), p[1]], FMul[FSub[p[3], Lit(7, 10)], p[2]]],
       FAdd[FSub[FSub[FAdd[Lit(6, 10), FMul[Lit(95, 100), p[3]]],
                      FDiv[Cube[p[3]], Num(3)]],
                 FMul[FAdd[Sq[p[1]], Sq[p[2]]],
                      FAdd[Num(1), FMul[Lit(25, 100), p[3]]]]],
            FMul[FMul[Lit(1, 10), p[3]], Cube[p[1]]]] >>

\* b: 0.2081
deriveThomas[p \in Vec3] ==
    << FSub[MathSin[p[2]], FMul[Lit(2081, 10000), p[1]]],
       FSub[MathSin[p[3]], FMul[Lit(2081, 10000), p[2]]],
       FSub[MathSin[p[1]], FMul[Lit(2081, 10000), p[3]]] >>

\* a: 1.89
deriveHalvorsen[p \in Vec3] ==
    << FSub[FSub[FSub[FMul[FNeg[Lit(189, 100)], p[1]], FMul[Num(4), p[2]]],
                 FMul[Num(4), p[3]]], FMul[p[2], p[2]]],
       FSub[FSub[FSub[FMul[FNeg[Lit(189, 100)], p[2]], FMul[Num(4), p[3]]],
                 FMul[Num(4), p[1]]], FMul[p[3], p[3]]],
       FSub[FSub[FSub[FMul[FNeg[Lit(189, 100)], p[3]], FMul[Num(4), p[1]]],
                 FMul[Num(4), p[2]]], FMul[p[1], p[1]]] >>

\* a: -0.6, b: 8.0, c: -1.0
deriveArneodo[p \in Vec3] ==
    << p[2],
       p[3],
       FAdd[FSub[FSub[FMul[FNeg[0 - Lit(6, 10)], p[1]], FMul[Num(8), p[2]]], p[3]],
            FMul[0 - Num(1), Cube[p[1]]]] >>

derive(key, p) ==
    CASE key = "lorenz" -> deriveLorenz[p]
      [] key = "aizawa" -> deriveAizawa[p]
      [] key = "thomas" -> deriveThomas[p]
      [] key = "halvorsen" -> deriveHalvorsen[p]
      [] key = "arneodo" -> deriveArneodo[p]

\* ------------------------------------------------------------- rk4Step
\* p[c] + k[c] * dt * 0.5 and p[c] + k[c] * dt: the arguments of the stages.
HalfStage(p, k, key) ==
    << FAdd[p[1], FMul[FMul[k[1], dt(key)], Lit(5, 10)]],
       FAdd[p[2], FMul[FMul[k[2], dt(key)], Lit(5, 10)]],
       FAdd[p[3], FMul[FMul[k[3], dt(key)], Lit(5, 10)]] >>

FullStage(p, k, key) ==
    << FAdd[p[1], FMul[k[1], dt(key)]],
       FAdd[p[2], FMul[k[2], dt(key)]],
       FAdd[p[3], FMul[k[3], dt(key)]] >>

\* A variant of Combine with equal weights on the four slopes.
CombineUnweighted(pc, k1c, k2c, k3c, k4c, key) ==
    FAdd[pc, FDiv[FMul[FAdd[FAdd[FAdd[k1c, k2c], k3c], k4c], dt(key)], Num(6)]]

\* p[c] + (k1[c] + 2 * k2[c] + 2 * k3[c] + k4[c]) * dt / 6
Combine(pc, k1c, k2c, k3c, k4c, key) ==
    FAdd[pc,
         FDiv[FMul[FAdd[FAdd[FAdd[k1c, FMul[Num(2), k2c]], FMul[Num(2), k3c]], k4c],
                   dt(key)],
              Num(6)]]

\* The four stages are bound in turn (each k is computed once, from the one
\* before it), then combined.
rk4Step(p, key) ==
    CHOOSE next \in
        UNION { UNION { UNION {
            { << Combine(p[1], k1[1], k2[1], k3[1], k4[1], key),
                 Combine(p[2], k1[2], k2[2], k3[2], k4[2], key),
                 Combine(p[3], k1[3], k2[3], k3[3], k4[3], key) >>
              : k4 \in {derive(key, FullStage(p, k3, key))} }
            : k3 \in {derive(key, HalfStage(p, k2, key))} }
            : k2 \in {derive(key, HalfStage(p, k1, key))} }
            : k1 \in {derive(key, p)} }
        : TRUE

\* ----------------------------------------------------- exact arithmetic
\* The numbers above round after every operation.  The numbers of this
\* section do not: they are the elements of the field of the integers
\* modulo the prime PRIME, in which sums, differences, products and
\* quotients by a nonzero number are exact and obey the laws of the real
\* numbers.  The decimal n/d is the field element n * d^-1.
PRIME == 1009
XAdd[a \in Int, b \in Int] == (a + b) % PRIME
XNeg[a \in Int] == (PRIME - a) % PRIME
XSub[a \in Int, b \in Int] == XAdd[a, XNeg[b]]
XMul[a \in Int, b \in Int] == (a * b) % PRIME
XDiv[a \in Int, b \in Int] ==
    XMul[a, CHOOSE r \in 1..(PRIME - 1) : (r * b) % PRIME = 1]
XLit(n, d) == XDiv[n % PRIME, d % PRIME]
XCube[x \in Int] == XMul[XMul[x, x], x]

\* Math.sin without rounding enters the step only as a function of its
\* argument: here x - x^3/6.
XSin[x \in Int] == XSub[x, XDiv[XCube[x], XLit(6, 1)]]

dtExact(key) == IF key = "thomas" THEN XLit(1, 10) ELSE XLit(1, 100)

initialExact(key) ==
    IF key = "arneodo" THEN <<XLit(1, 10), XLit(1, 10), XLit(1, 10)>>
    ELSE <<XLit(1, 10), 0, 0>>

\* att.derive(p, att.params), for the five definitions of ATTRACTORS.
deriveExact(key, p) ==
    LET x == p[1]
        y == p[2]
        z == p[3]
    IN  CASE key = "lorenz" ->
               \* sigma: 10, rho: 28, beta: 8 / 3
               << XMul[XLit(10, 1), XSub[y, x]],
                  XSub[XMul[x, XSub[XLit(28, 1), z]], y],
                  XSub[XMul[x, y], XMul[XLit(8, 3), z]] >>
          [] key = "aizawa" ->
               \* a: 0.95, b: 0.7, c: 0.6, d: 3.5, e: 0.25, f: 0.1
               << XSub[XMul[XSub[z, XLit(7, 10)], x], XMul[XLit(35, 10), y]],
                  XAdd[XMul[XLit(35, 10), x], XMul[XSub[z, XLit(7, 10)], y]],
                  XAdd[XSub[XSub[XAdd[XLit(6, 10), XMul[XLit(95, 100), z]],
                                 XDiv[XCube[z], XLit(3, 1)]],
                            XMul[XAdd[XMul[x, x], XMul[y, y]],
                                 XAdd[XLit(1, 1), XMul[XLit(25, 100), z]]]],
                       XMul[XMul[XLit(1, 10), z], XCube[x]]] >>
          [] key = "thomas" ->
               \* b: 0.2081
               << XSub[XSin[y], XMul[XLit(2081, 10000), x]],
                  XSub[XSin[z], XMul[XLit(2081, 10000), y]],
                  XSub[XSin[x], XMul[XLit(2081, 10000), z]] >>
          [] key = "halvorsen" ->
               \* a: 1.89
               << XSub[XSub[XSub[XMul[XNeg[XLit(189, 100)], x], XMul[XLit(4, 1), y]],
                            XMul[XLit(4, 1), z]], XMul[y, y]],
                  XSub[XSub[XSub[XMul[XNeg[XLit(189, 100)], y], XMul[XLit(4, 1), z]],
                            XMul[XLit(4, 1), x]], XMul[z, z]],
                  XSub[XSub[XSub[XMul[XNeg[XLit(189, 100)], z], XMul[XLit(4, 1), x]],
                            XMul[XLit(4, 1), y]], XMul[x, x]] >>
          [] key = "arneodo" ->
               \* a: -0.6, b: 8.0, c: -1.0
               << y,
                  z,
                  XAdd[XSub[XSub[XMul[XNeg[XNeg[XLit(6, 10)]], x],
                                 XMul[XLit(8, 1), y]], z],
                       XMul[XNeg[XLit(1, 1)], XCube[x]]] >>

\* lib/attractors.ts: add, mul and rk4(p, attractor.derive,
\* attractor.params, attractor.dt).
add(a, b) == <<XAdd[a[1], b[1]], XAdd[a[2], b[2]], XAdd[a[3], b[3]]>>
mul(a, s) == <<XMul[a[1], s], XMul[a[2], s], XMul[a[3], s]>>

\* A variant of rk4: the midpoint rule, which keeps the second slope only.
rk4Midpoint(p, key) ==
    add(p, mul(deriveExact(key, add(p, mul(deriveExact(key, p),
                                            XMul[XLit(5, 10), dtExact(key)]))),
               dtExact(key)))

rk4(p, key) ==
    LET k1 == deriveExact(key, p)
        k2 == deriveExact(key, add(p, mul(k1, XMul[XLit(5, 10), dtExact(key)])))
        k3 == deriveExact(key, add(p, mul(k2, XMul[XLit(5, 10), dtExact(key)])))
        k4 == deriveExact(key, add(p, mul(k3, dtExact(key))))
    IN  add(p, mul(add(add(k1, mul(k2, XLit(2, 1))), add(mul(k3, XLit(2, 1)), k4)),
                   XDiv[dtExact(key), XLit(6, 1)]))

\* rk4Step of AttractorCanvas, its expressions evaluated without rounding:
\* p[c] + k[c] * dt * 0.5, p[c] + k[c] * dt and
\* p[c] + (k1[c] + 2 * k2[c] + 2 * k3[c] + k4[c]) * dt / 6.
rk4StepExact(p, key) ==
    LET Half(k) == [c \in 1..3 |->
                      XAdd[p[c], XMul[XMul[k[c], dtExact(key)], XLit(5, 10)]]]
        Full(k) == [c \in 1..3 |-> XAdd[p[c], XMul[k[c], dtExact(key)]]]
        k1 == deriveExact(key, p)
        k2 == deriveExact(key, Half(k1))
        k3 == deriveExact(key, Half(k2))
        k4 == deriveExact(key, Full(k3))
    IN  [c \in 1..3 |->
           XAdd[p[c],
                XDiv[XMul[XAdd[XAdd[XAdd[k1[c], XMul[XLit(2, 1), k2[c]]],
                                    XMul[XLit(2, 1), k3[c]]], k4[c]],
                          dtExact(key)],
                     XLit(6, 1)]]]

\* ------------------------------------------------------- particle field
PARTICLE_COUNT == 2
TRAIL_LENGTH == 3
TOTAL_POINTS == PARTICLE_COUNT * TRAIL_LENGTH

\* The warm-up of initParticles: WARMUP_STEPS integration steps, of which
\* those with index above TRANSIENT_STEPS are kept as the reference sample.
WARMUP_STEPS == 12
TRANSIENT_STEPS == 8

\* 1e4, the magnitude beyond which a trajectory counts as diverged.
DIVERGENCE_LIMIT == Num(10000)

\* isNaN(p[0]) || Math.abs(p[0]) > 1e4
Diverged(p) == isNaN(p[1]) \/ FGt[MathAbs[p[1]], DIVERGENCE_LIMIT]

\* a || b on numbers: b when a is 0 or NaN.
JsOr(a, b) == IF a = 0 \/ isNaN(a) THEN b ELSE a

\* Math.random(): a value of [0, 1).  A call draws its values from a
\* stream rnd = <<a, b>>; the j-th draw is RandomValues[(a + b * j) % 3].
RandomValues == <<0, Lit(1, 2), SCALE - 1>>
Streams == (0..2) \X (0..2)
ReseedStreams == {<<0, 1>>, <<1, 2>>}
Draw(rnd, j) == RandomValues[((rnd[1] + rnd[2] * j) % Len(RandomValues)) + 1]

\* Math.floor(r * len), r in [0, 1)
FloorTimes(r, len) == (r * len) \div SCALE

\* The 1-based place of coordinate c (1..3) of trail point t of particle i
\* (both 0-based, as in the source) in the positions buffer, and of
\* coordinate c of particle i in the heads buffer.
PosIdx(i, t, c) == (i * TRAIL_LENGTH + t) * 3 + c
HeadIdx(i, c) == i * 3 + c

\* The head of particle i as a point.
HeadOf(heads, i) == << heads[HeadIdx(i, 1)], heads[HeadIdx(i, 2)], heads[HeadIdx(i, 3)] >>

\* One warm-up step: p = rk4Step(p, key), reset to the initial state when
\* the divergence check fails.
WarmNext(p, key) ==
    CHOOSE r \in { (IF Diverged(q) THEN initial(key) ELSE q) : q \in {rk4Step(p, key)} } : TRUE

RECURSIVE WarmUp(_, _, _, _)
WarmUp(p, i, refPts, key) ==
    IF i >= WARMUP_STEPS THEN refPts
    ELSE CHOOSE out \in
            { WarmUp(r, i + 1,
                     IF i > TRANSIENT_STEPS THEN Append(refPts, r) ELSE refPts,
                     key)
              : r \in {WarmNext(p, key)} }
         : TRUE

\* The reference sample of each attractor (the warm-up is the same on every
\* call: it draws no random value).
RefPtsTable == [key \in AttractorKey |-> WarmUp(initial(key), 0, <<>>, key)]
RefPts(key) == RefPtsTable[key]

RECURSIVE MinOf(_, _, _, _)
MinOf(refPts, c, k, acc) ==
    IF k > Len(refPts) THEN acc
    ELSE MinOf(refPts, c, k + 1, MathMin[acc, refPts[k][c]])

RECURSIVE MaxOf(_, _, _, _)
MaxOf(refPts, c, k, acc) ==
    IF k > Len(refPts) THEN acc
    ELSE MaxOf(refPts, c, k + 1, MathMax[acc, refPts[k][c]])

BoxMin(refPts) == <<MinOf(refPts, 1, 1, PInf), MinOf(refPts, 2, 1, PInf), MinOf(refPts, 3, 1, PInf)>>
BoxMax(refPts) == <<MaxOf(refPts, 1, 1, NInf), MaxOf(refPts, 2, 1, NInf), MaxOf(refPts, 3, 1, NInf)>>

\* (min[c] + max[c]) / 2
NormCenterOf(refPts) ==
    LET mn == BoxMin(refPts)
        mx == BoxMax(refPts)
    IN  << FDiv[FAdd[mn[1], mx[1]], Num(2)],
           FDiv[FAdd[mn[2], mx[2]], Num(2)],
           FDiv[FAdd[mn[3], mx[3]], Num(2)] >>

\* A variant of NormScaleOf without the fallback.
NormScaleNoFallback(refPts) ==
    LET mn == BoxMin(refPts)
        mx == BoxMax(refPts)
    IN  MathMax[MathMax[FSub[mx[1], mn[1]], FSub[mx[2], mn[2]]], FSub[mx[3], mn[3]]]

\* Math.max(max[0] - min[0], max[1] - min[1], max[2] - min[2]) || 1
NormScaleOf(refPts) ==
    LET mn == BoxMin(refPts)
        mx == BoxMax(refPts)
    IN  JsOr(MathMax[MathMax[FSub[mx[1], mn[1]], FSub[mx[2], mn[2]]],
                     FSub[mx[3], mn[3]]],
             Num(1))

\* (raw - normCenter[c]) / normScale
Normalize(raw, center, scale) == FDiv[FSub[raw, center], scale]

\* The normalized point of the raw point j, as stored in the positions
\* buffer.
Normalized3(j, center, scale) ==
    << fround[Normalize(j[1], center[1], scale)],
       fround[Normalize(j[2], center[2], scale)],
       fround[Normalize(j[3], center[3], scale)] >>

\* A variant of Jitter ten times as wide.
JitterWide(refc, r, scale) ==
    FAdd[refc, FMul[FMul[FSub[r, Lit(5, 10)], scale], Lit(2, 10)]]

\* ref[c] + (Math.random() - 0.5) * normScale * 0.02
Jitter(refc, r, scale) ==
    FAdd[refc, FMul[FMul[FSub[r, Lit(5, 10)], scale], Lit(2, 100)]]

\* The positions buffer with the normalized point n at sub-point t of
\* particle i.
StorePoint(positions, i, t, n) ==
    [positions EXCEPT ![PosIdx(i, t, 1)] = n[1],
                      ![PosIdx(i, t, 2)] = n[2],
                      ![PosIdx(i, t, 3)] = n[3]]

\* A variant of FillTrail that writes the first sub-point only.
FillTrailFirstOnly(positions, i, t, n) == StorePoint(positions, i, t, n)

\* The trail of particle i, every sub-point at the normalized point n.
RECURSIVE FillTrail(_, _, _, _)
FillTrail(positions, i, t, n) ==
    IF t >= TRAIL_LENGTH THEN positions
    ELSE FillTrail(StorePoint(positions, i, t, n), i, t + 1, n)

\* A variant of StoreHead that stores the coordinates one place on.
StoreHeadRotated(heads, i, j) ==
    [heads EXCEPT ![HeadIdx(i, 1)] = fround[j[2]],
                  ![HeadIdx(i, 2)] = fround[j[3]],
                  ![HeadIdx(i, 3)] = fround[j[1]]]

\* The heads buffer with the point j stored for particle i.
StoreHead(heads, i, j) ==
    [heads EXCEPT ![HeadIdx(i, 1)] = fround[j[1]],
                  ![HeadIdx(i, 2)] = fround[j[2]],
                  ![HeadIdx(i, 3)] = fround[j[3]]]

\* The jittered copy of a random reference point, for particle i.
ScatterPoint(i, refPts, rnd, scale) ==
    CHOOSE j \in
        { << Jitter(ref[1], Draw(rnd, 4 * i + 1), scale),
             Jitter(ref[2], Draw(rnd, 4 * i + 2), scale),
             Jitter(ref[3], Draw(rnd, 4 * i + 3), scale) >>
          : ref \in {refPts[FloorTimes(Draw(rnd, 4 * i), Len(refPts)) + 1]} }
    : TRUE

\* One iteration of the particle loop of initParticles.
ScatterOne(st, i, refPts, rnd) ==
    CHOOSE out \in
        { [st EXCEPT !.heads = StoreHead(@, i, j),
                     !.positions = FillTrail(@, i, 0, n)]
          : j \in {ScatterPoint(i, refPts, rnd, st.normScale)},
            n \in {Normalized3(ScatterPoint(i, refPts, rnd, st.normScale),
                               st.normCenter, st.normScale)} }
    : TRUE

RECURSIVE Scatter(_, _, _, _)
Scatter(st, i, refPts, rnd) ==
    IF i >= PARTICLE_COUNT THEN st
    ELSE CHOOSE out \in
            { Scatter(s, i + 1, refPts, rnd) : s \in {ScatterOne(st, i, refPts, rnd)} }
         : TRUE

\* ATTRACTOR_PALETTES[key]
ATTRACTOR_PALETTES ==
    [lorenz |-> [primary |-> <<Lit(1, 10), Lit(6, 10), Num(1)>>,
                 secondary |-> <<Lit(9, 10), Lit(2, 10), Lit(5, 10)>>,
                 accent |-> <<Lit(3, 10), Num(1), Lit(8, 10)>>],
     aizawa |-> [primary |-> <<Num(1), Lit(4, 10), Lit(1, 10)>>,
                 secondary |-> <<Lit(3, 10), Lit(1, 10), Lit(9, 10)>>,
                 accent |-> <<Num(1), Lit(8, 10), Lit(2, 10)>>],
     thomas |-> [primary |-> <<Lit(2, 10), Lit(9, 10), Lit(4, 10)>>,
                 secondary |-> <<0, Lit(5, 10), Num(1)>>,
                 accent |-> <<Lit(8, 10), Num(1), Lit(3, 10)>>],
     halvorsen |-> [primary |-> <<Lit(9, 10), Lit(1, 10), Lit(3, 10)>>,
                    secondary |-> <<Num(1), Lit(6, 10), 0>>,
                    accent |-> <<Num(1), Lit(3, 10), Lit(7, 10)>>],
     arneodo |-> [primary |-> <<Lit(6, 10), Lit(2, 10), Num(1)>>,
                  secondary |-> <<Lit(2, 10), Lit(8, 10), Num(1)>>,
                  accent |-> <<Lit(9, 10), Lit(4, 10), Num(1)>>]]

\* const phase = (i / PARTICLE_COUNT) * Math.PI * 2
Phase[i \in Nat] == FMul[FMul[FDiv[Num(i), Num(PARTICLE_COUNT)], PI], Num(2)]

\* Math.sin(x) * 0.5 + 0.5
Blend[x \in Int] == FAdd[FMul[MathSin[x], Lit(5, 10)], Lit(5, 10)]

\* primary[c] * blend1 + secondary[c] * blend2 + accent[c] * (1 - blend1) * 0.3
Mix(palette, c, blend1, blend2) ==
    FAdd[FAdd[FMul[palette.primary[c], blend1], FMul[palette.secondary[c], blend2]],
         FMul[FMul[palette.accent[c], FSub[Num(1), blend1]], Lit(3, 10)]]

\* Channel c of the color of particle i: the mix is stored in the colors
\* buffer, read back and clamped by Math.min(1.0, .), and stored again.
ColorOf(key, i, c) ==
    CHOOSE out \in
        { fround[MathMin[Num(1), fround[v]]] :
          v \in { Mix(ATTRACTOR_PALETTES[key], c,
                       Blend[Phase[i]], Blend[FAdd[Phase[i], Lit(209, 100)]]) } }
    : TRUE

\* const trailFade = 1.0 - (t / TRAIL_LENGTH)
trailFade[t \in Nat] == FSub[Num(1), FDiv[Num(t), Num(TRAIL_LENGTH)]]

\* The colors, alphas and sizes buffers that the scatter loop of
\* initParticles fills (lines 115-132): no random value enters them.
ColorTable ==
    [key \in AttractorKey |->
        [k \in 1..(TOTAL_POINTS * 3) |->
            ColorOf(key, (k - 1) \div (3 * TRAIL_LENGTH), ((k - 1) % 3) + 1)]]
AlphaTable ==
    [k \in 1..TOTAL_POINTS |->
        fround[FMul[trailFade[(k - 1) % TRAIL_LENGTH], trailFade[(k - 1) % TRAIL_LENGTH]]]]
SizeTable ==
    [k \in 1..TOTAL_POINTS |->
        IF (k - 1) % TRAIL_LENGTH = 0 THEN fround[Num(1)]
        ELSE fround[MathMax[Lit(3, 10), trailFade[(k - 1) % TRAIL_LENGTH]]]]

NormTable ==
    [key \in AttractorKey |->
        [normCenter |-> NormCenterOf(RefPts(key)), normScale |-> NormScaleOf(RefPts(key))]]

\* A variant of Field that takes the normalization of the first attractor.
FieldForeignNorm(key, heads, positions) ==
    [positions |-> positions,
     colors |-> ColorTable[key],
     alphas |-> AlphaTable,
     sizes |-> SizeTable,
     heads |-> heads,
     key |-> key,
     normCenter |-> NormTable[KEYS[1]].normCenter,
     normScale |-> NormTable[KEYS[1]].normScale]

\* A field with the given buffers and the normalization of its attractor.
Field(key, heads, positions) ==
    [positions |-> positions,
     colors |-> ColorTable[key],
     alphas |-> AlphaTable,
     sizes |-> SizeTable,
     heads |-> heads,
     key |-> key,
     normCenter |-> NormTable[key].normCenter,
     normScale |-> NormTable[key].normScale]

ZeroHeads == [k \in 1..(PARTICLE_COUNT * 3) |-> 0]
ZeroPositions == [k \in 1..(TOTAL_POINTS * 3) |-> 0]

\* The field initParticles returns.
initParticles(key, rnd) ==
    CHOOSE out \in
        { Scatter(st, 0, RefPts(key), rnd) : st \in {Field(key, ZeroHeads, ZeroPositions)} }
    : TRUE

\* Lines 86-134 of initParticles on the reference sample refPts: the
\* normalization of the sample, then the scatter (initParticles is this on
\* the sample its warm-up produced).
FieldFrom(key, refPts, rnd) ==
    CHOOSE out \in
        { Scatter(st, 0, refPts, rnd) :
          st \in { [positions |-> ZeroPositions,
                    colors |-> ColorTable[key],
                    alphas |-> AlphaTable,
                    sizes |-> SizeTable,
                    heads |-> ZeroHeads,
                    key |-> key,
                    normCenter |-> NormCenterOf(refPts),
                    normScale |-> NormScaleOf(refPts)] } }
    : TRUE

\* A variant of ShiftOne that leaves sub-point t as it is.
ShiftOneStale(positions, i, t) == positions

\* The trail shift of particle i: for t from TRAIL_LENGTH - 1 down to 1,
\* sub-point t takes the value of sub-point t - 1.
ShiftOne(positions, i, t) ==
    [positions EXCEPT ![PosIdx(i, t, 1)] = positions[PosIdx(i, t - 1, 1)],
                      ![PosIdx(i, t, 2)] = positions[PosIdx(i, t - 1, 2)],
                      ![PosIdx(i, t, 3)] = positions[PosIdx(i, t - 1, 3)]]

RECURSIVE ShiftTrail(_, _, _)
ShiftTrail(positions, i, t) ==
    IF t <= 0 THEN positions
    ELSE CHOOSE out \in
            { ShiftTrail(q, i, t - 1) : q \in {ShiftOne(positions, i, t)} }
         : TRUE

\* init[c] + (Math.random() - 0.5) * 0.1
Reseed(key, rnd, i) ==
    << FAdd[initial(key)[1], FMul[FSub[Draw(rnd, 3 * i), Lit(5, 10)], Lit(1, 10)]],
       FAdd[initial(key)[2], FMul[FSub[Draw(rnd, 3 * i + 1), Lit(5, 10)], Lit(1, 10)]],
       FAdd[initial(key)[3], FMul[FSub[Draw(rnd, 3 * i + 2), Lit(5, 10)], Lit(1, 10)]] >>

\* The value of `next` for particle i once the divergence check has run.
NextHead(st, i, rnd) ==
    CHOOSE out \in
        { (IF Diverged(next) THEN Reseed(st.key, rnd, i) ELSE next)
          : next \in {rk4Step(HeadOf(st.heads, i), st.key)} }
    : TRUE

\* One iteration of the particle loop of stepParticles.
StepOne(st, i, rnd) ==
    CHOOSE out \in
        { [st EXCEPT
             !.heads = StoreHead(@, i, next),
             !.positions = StorePoint(ShiftTrail(@, i, TRAIL_LENGTH - 1), i, 0,
                                      Normalized3(next, st.normCenter, st.normScale))]
          : next \in {NextHead(st, i, rnd)} }
    : TRUE

RECURSIVE StepFrom(_, _, _)
StepFrom(st, i, rnd) ==
    IF i >= PARTICLE_COUNT THEN st
    ELSE CHOOSE out \in
            { StepFrom(s, i + 1, rnd) : s \in {StepOne(st, i, rnd)} }
         : TRUE

\* Variants of stepParticles: one that rescales the field as it steps, one
\* that advances every particle twice.
stepParticlesRenorm(st, rnd) ==
    [StepFrom(st, 0, rnd) EXCEPT !.normScale = FAdd[@, Num(1)]]
stepParticlesTwice(st, rnd) ==
    CHOOSE out \in { StepFrom(s, 0, rnd) : s \in {StepFrom(st, 0, rnd)} } : TRUE

\* A variant of stepParticles that also fades the alphas toward the tail.
stepParticlesFading(st, rnd) ==
    [StepFrom(st, 0, rnd) EXCEPT !.alphas = [k \in DOMAIN @ |-> FMul[@[k], Lit(9, 10)]]]

stepParticles(st, rnd) == StepFrom(st, 0, rnd)

\* ---------------------------------------------------------------- state
MaxSteps == 5
MaxEvents == 6
MaxPending == 2
MaxAppEvents == 2
MaxAppSteps == 1

VARIABLES
    attractorIndex,  \* AttractorApp: the rendered value of the selection state
    pending,         \* state updates queued by setAttractorIndex, not yet rendered
    mounted,         \* AttractorCanvas: readyRef (the mount effect has run)
    prevIdxRef,      \* AttractorCanvas: prevIdxRef.current
    animOn,          \* AttractorCanvas: the callback requested as animId is pending
    cleaned,         \* history: the cleanup of the mount effect has run
    state,           \* AttractorCanvas: stateRef.current, a ParticleState
    stepAccum,       \* animate: stepAccum
    frame,           \* animate: "idle", or "stepping" inside the step loop
    stepsPerFrame,   \* animate: stepsPerFrame of the frame in progress
    stepsLeft,       \* animate: iterations of the step loop still to run
    interval,        \* history: the clock.getDelta() shared by all frames on the
                     \*          current field (0 before its first frame, -1 once
                     \*          two of them differed)
    elapsed,         \* history: the sum of clock.getDelta() over the frames on
                     \*          the current field while they share one delta (0
                     \*          once they differ)
    curScale,        \* AttractorCanvas: curScale.current
    curBiasX,        \* AttractorCanvas: curBiasX.current
    curBiasY,        \* AttractorCanvas: curBiasY.current
    steps,           \* history: stepParticles calls on the current field
    origHeads,       \* history: the heads of the current field at its creation
    geometry,        \* pointsRef.current.geometry: the arrays of its color,
                     \*          alpha and size attributes
    refSample,       \* history: the reference sample (refPts) of the call of
                     \*          initParticles that made the current field
    reseeded,        \* history: a reseed fired on the current field
    lastRnd,         \* history: the random stream of the last call that drew
    events,          \* history: selection events so far
    base,            \* history: the index set by the last direct jump (0 at start)
    cycles,          \* history: cycle events since the last direct jump
    pointerDownRef,  \* AttractorApp: pointerDownRef.current (NullPress: null)
    lastUp,          \* history: clientX, clientY and Date.now() of the latest
                     \*          pointer-up (NullPress before the first)
    pointerEvents,   \* history: pointer-down and pointer-up events so far
    pressCycles,     \* history: cycleAttractor calls by pointer-ups since the
                     \*          latest pointer-down
    rebuilds,        \* history: reconstructions by the attractor swap effect
    active,          \* useHandTracking effect: the closure's `active` flag
    setupAt,         \* setup(): the await it is suspended at, "stalled" at an
                     \*          await that will never settle, or "ended"
    failedAt,        \* history: the step of setup() that failed, or "none"
    landmarkerRef,   \* landmarkerRef.current: "null" or "lm"
    landmarker,      \* the HandLandmarker: "none", "open" or "closed"
    videoRef,        \* videoRef.current: "null" or "video"
    track,           \* the camera track of the stream: "none", "live" or "stopped"
    statusRef,       \* statusRef.current
    present,         \* metricsRef.current.present
    loopOn,          \* a requestAnimationFrame callback of loop is scheduled
    clock,           \* Date.now() at the latest frame, in ms
    lastFistRef,     \* lastFistRef.current
    wasFistRef,      \* wasFistRef.current
    fistCalls,       \* history: invocations of onFist
    lastCall,        \* history: Date.now() at the latest invocation (-1: none)
    prevCall,        \* history: Date.now() at the invocation before it (-1: none)
    heldCalls,       \* history: invocations since the last hand-detected frame
                     \*          that was not a fist
    lastHand,        \* history: the latest hand-detected frame: "none" before
                     \*          the first, then "open" or "fist"
    lastPass,        \* history: what the latest pass of loop() met ("none"
                     \*          before the first)
    mCenterX,        \* metricsRef.current.centerX
    mCenterY,        \* metricsRef.current.centerY
    mScale,          \* metricsRef.current.scale
    smoothX,         \* smoothX.current
    smoothY,         \* smoothY.current
    smoothScale,     \* smoothScale.current
    baseline,        \* baseline.current (NullRef: null)
    orbit            \* lib/attractors.ts: p of generateAttractorPoints after
                     \*          cloudN of its rk4 calls, beside the head of a
                     \*          live particle after liveN rk4Step calls, both
                     \*          in exact arithmetic from one starting state

pressVars == <<pointerDownRef, lastUp, pointerEvents, pressCycles>>
libVars == <<orbit>>
selVars == <<attractorIndex, pending, events, base, cycles, pressVars, libVars>>
canvasVars == <<mounted, prevIdxRef, rebuilds, animOn, cleaned>>
rateVars == <<elapsed, interval>>
fieldVars == <<state, geometry, steps, origHeads, refSample, reseeded, lastRnd,
               rateVars>>
sceneVars == <<curScale, curBiasX, curBiasY>>
frameVars == <<stepAccum, frame, stepsPerFrame, stepsLeft, sceneVars>>
setupVars == <<active, setupAt, failedAt, landmarkerRef, landmarker, videoRef, track,
               loopOn>>
metricVars == <<mCenterX, mCenterY, mScale, smoothX, smoothY, smoothScale, baseline>>
loopVars == <<statusRef, present, clock, lastFistRef, wasFistRef, fistCalls,
              lastCall, prevCall, heldCalls, lastHand, lastPass, metricVars>>
handVars == <<setupVars, loopVars>>
vars == <<selVars, canvasVars, fieldVars, frameVars, handVars>>

\* keys[attractorIndex % keys.length]
KeyOf(idx) == KEYS[(idx % N) + 1]

NoField == [positions |-> <<>>, colors |-> <<>>, alphas |-> <<>>, sizes |-> <<>>,
            heads |-> <<>>, key |-> "none",
            normCenter |-> <<0, 0, 0>>, normScale |-> 0]

\* ----------------------------------------------------- selection (App)
\* A variant of cycleUpdater without the wraparound.
cycleUpdaterNoWrap(prev) == prev + 1

\* prev => (prev + 1) % Object.keys(ATTRACTORS).length
cycleUpdater(prev) == (prev + 1) % N

\* One queued update applied to the value before it
\* (a functional update of cycleAttractor, or the dropdown's value).
CycleUpdate == [kind |-> "cycle", value |-> 0]
SetUpdate(v) == [kind |-> "set", value |-> v]
ApplyUpdate(prev, u) == IF u.kind = "cycle" THEN cycleUpdater(prev) ELSE u.value

RECURSIVE ApplyAll(_, _)
ApplyAll(prev, q) ==
    IF q = <<>> THEN prev ELSE ApplyAll(ApplyUpdate(prev, Head(q)), Tail(q))

InFrame == frame # "idle"

\* cycleAttractor: setAttractorIndex(prev => ...).
cycleAttractor ==
    /\ pending' = Append(pending, CycleUpdate)
    /\ events' = events + 1
    /\ cycles' = cycles + 1
    /\ UNCHANGED <<attractorIndex, base>>

\* The space bar or a tap: cycleAttractor().
CycleEvent ==
    /\ ~InFrame
    /\ cycleAttractor
    /\ UNCHANGED <<pressVars, libVars, canvasVars, fieldVars, frameVars, handVars>>

\* The dropdown's onChange: setAttractorIndex(Number(e.target.value)), for
\* an option other than the one shown.
SelectEvent(v) ==
    /\ ~InFrame
    /\ v # attractorIndex
    /\ pending' = Append(pending, SetUpdate(v))
    /\ events' = events + 1
    /\ base' = v
    /\ cycles' = 0
    /\ UNCHANGED <<attractorIndex, pressVars, libVars, canvasVars, fieldVars,
                   frameVars, handVars>>

\* ------------------------------------------------------- pointer (App)
\* pointerDownRef.current === null
NullPress == [x |-> 0, y |-> 0, time |-> 0 - 1]

\* Math.sqrt(v) for v >= 0, rounded to the nearest representable value.
MathSqrt[v \in Nat] ==
    LET whole == CHOOSE c \in 0..16 :
                     c * c * SCALE <= v /\ v < (c + 1) * (c + 1) * SCALE
    IN CHOOSE r \in (whole * SCALE)..((whole + 1) * SCALE) :
           /\ r = 0 \/ (2 * r - 1) * (2 * r - 1) <= 4 * v * SCALE
           /\ 4 * v * SCALE < (2 * r + 1) * (2 * r + 1)

\* Math.sqrt(dx * dx + dy * dy) for dx, dy in pixels.
Moved(dx, dy) ==
    CHOOSE out \in { MathSqrt[sq] :
                      sq \in { FAdd[FMul[Num(dx), Num(dx)], FMul[Num(dy), Num(dy)]] } } : TRUE

\* A variant of IsTap that admits both thresholds.
IsTapAtThreshold(dx, dy, t) == Moved(dx, dy) <= Num(6) /\ t <= 250

\* Math.sqrt(dx * dx + dy * dy) < 6 && dt < 250
IsTap(dx, dy, t) == Moved(dx, dy) < Num(6) /\ t < 250

\* onPointerDown, at clientX = x, clientY = y and Date.now() = t.
onPointerDown(x, y, t) ==
    /\ ~InFrame
    /\ pointerDownRef' = [x |-> x, y |-> y, time |-> t]
    /\ clock' = t
    /\ pointerEvents' = pointerEvents + 1
    /\ pressCycles' = 0
    /\ UNCHANGED <<attractorIndex, pending, events, base, cycles, lastUp, libVars,
                   canvasVars, fieldVars, frameVars, setupVars,
                   statusRef, present, lastFistRef, wasFistRef, fistCalls,
                   lastCall, prevCall, heldCalls, lastHand, lastPass, metricVars>>

\* onPointerUp, at clientX = x, clientY = y and Date.now() = t.
onPointerUp(x, y, t) ==
    /\ ~InFrame
    /\ clock' = t
    /\ lastUp' = [x |-> x, y |-> y, time |-> t]
    /\ pointerEvents' = pointerEvents + 1
    /\ IF pointerDownRef = NullPress
       THEN UNCHANGED <<attractorIndex, pending, events, base, cycles,
                        pointerDownRef, pressCycles>>
       ELSE /\ IF IsTap(x - pointerDownRef.x, y - pointerDownRef.y,
                         t - pointerDownRef.time)
               THEN cycleAttractor /\ pressCycles' = pressCycles + 1
               ELSE UNCHANGED <<attractorIndex, pending, events, base, cycles,
                                pressCycles>>
            /\ pointerDownRef' = NullPress
    /\ UNCHANGED <<libVars, canvasVars, fieldVars, frameVars, setupVars,
                   statusRef, present, lastFistRef, wasFistRef, fistCalls,
                   lastCall, prevCall, heldCalls, lastHand, lastPass, metricVars>>

\* ------------------------------------------------------ canvas effects
\* The color, alpha and size attributes of the geometry filled from the
\* field st: created from its buffers at mount (lines 298-300), set from
\* them in place by the swap effect (lines 468-470).
Attributes(st) == [color |-> st.colors, alpha |-> st.alphas, size |-> st.sizes]

\* The field of a fresh initParticles call, with its history.
NewField(key, rnd) ==
    /\ state' = initParticles(key, rnd)
    /\ steps' = 0
    /\ origHeads' = state'.heads
    /\ refSample' = RefPts(key)
    /\ geometry' = Attributes(state')
    /\ reseeded' = FALSE
    /\ lastRnd' = rnd
    /\ elapsed' = 0
    /\ interval' = 0

\* The mount effect of AttractorCanvas: the first field, for the selection
\* rendered at mount, and the first call of animate, which requests the
\* next one.
Mount(rnd) ==
    /\ ~mounted
    /\ ~cleaned
    /\ ~InFrame
    /\ mounted' = TRUE
    /\ animOn' = TRUE
    /\ NewField(KeyOf(attractorIndex), rnd)
    /\ prevIdxRef' = attractorIndex
    /\ UNCHANGED <<selVars, rebuilds, cleaned, frameVars, handVars>>

\* The mount effect when the warm-up of initParticles has produced the
\* reference sample refPts.
MountFrom(refPts, rnd) ==
    /\ ~mounted
    /\ ~cleaned
    /\ ~InFrame
    /\ mounted' = TRUE
    /\ animOn' = TRUE
    /\ state' = FieldFrom(KeyOf(attractorIndex), refPts, rnd)
    /\ steps' = 0
    /\ origHeads' = state'.heads
    /\ refSample' = refPts
    /\ geometry' = Attributes(state')
    /\ reseeded' = FALSE
    /\ lastRnd' = rnd
    /\ elapsed' = 0
    /\ interval' = 0
    /\ prevIdxRef' = attractorIndex
    /\ UNCHANGED <<selVars, rebuilds, cleaned, frameVars, handVars>>

\* A variant of CancelAnimation: a cleanup that leaves the request pending.
CancelNothing(on) == on

\* cancelAnimationFrame(animId): whether a callback of animate stays pending.
CancelAnimation(on) == FALSE

\* The cleanup of the mount effect: the pending frame is cancelled and
\* readyRef is cleared (stateRef and pointsRef keep their objects).
Unmount ==
    /\ mounted
    /\ ~InFrame
    /\ animOn' = CancelAnimation(animOn)
    /\ mounted' = FALSE
    /\ cleaned' = TRUE
    /\ UNCHANGED <<selVars, prevIdxRef, rebuilds, fieldVars, frameVars, handVars>>

\* A variant of SwapRebuilds: an effect that never rebuilds.
SwapNever(idx) == FALSE

\* The attractor swap effect, run after a render that changed attractorIndex
\* to idx: whether it rebuilds the field.
SwapRebuilds(idx) == mounted /\ prevIdxRef # idx

\* A render: the queued updates are applied in order, then the swap effect
\* runs if the rendered selection changed.
Render(rnd) ==
    /\ ~InFrame
    /\ pending # <<>>
    /\ attractorIndex' = ApplyAll(attractorIndex, pending)
    /\ pending' = <<>>
    /\ IF attractorIndex' # attractorIndex /\ SwapRebuilds(attractorIndex')
       THEN /\ NewField(KeyOf(attractorIndex'), rnd)
            /\ prevIdxRef' = attractorIndex'
            /\ rebuilds' = rebuilds + 1
       ELSE UNCHANGED <<fieldVars, prevIdxRef, rebuilds>>
    /\ UNCHANGED <<events, base, cycles, pressVars, libVars, mounted, animOn,
                   cleaned, frameVars, handVars>>

\* ------------------------------------------------------------- animate
\* clock.getDelta(): the seconds since the previous frame.
FrameDeltas == {Lit(4, 1000), Lit(16, 1000), Lit(33, 1000)}

\* A variant of StepsFor without the cap.
StepsForUncapped(accum) == accum \div Lit(8, 1000)

\* Math.min(Math.floor(stepAccum / 0.008), 3)
StepsFor(accum) ==
    LET n == accum \div Lit(8, 1000) IN IF n < 3 THEN n ELSE 3

\* The head of animate up to the step loop: the callback requested by the
\* previous call runs and requests the next; stateRef and pointsRef are set
\* from the mount on.
FrameBegin(delta) ==
    /\ animOn
    /\ frame = "idle"
    /\ stepAccum' = stepAccum + delta
    /\ stepsPerFrame' = StepsFor(stepAccum')
    /\ stepsLeft' = stepsPerFrame'
    /\ frame' = "stepping"
    /\ interval' = IF interval \in {0, delta} THEN delta ELSE 0 - 1
    /\ elapsed' = IF interval' > 0 THEN elapsed + delta ELSE 0
    /\ UNCHANGED <<selVars, canvasVars, state, geometry, steps, origHeads, refSample, reseeded,
                   lastRnd, sceneVars, handVars>>

\* Some particle's integration result fails the divergence check.
AnyDiverged(st) ==
    \E i \in 0..(PARTICLE_COUNT - 1) : Diverged(rk4Step(HeadOf(st.heads, i), st.key))

\* One iteration of the step loop: stepParticles(stateRef.current).  A call
\* in which no reseed fires draws no random value.
StepCall ==
    /\ frame = "stepping"
    /\ stepsLeft > 0
    /\ \E rnd \in (IF AnyDiverged(state) THEN ReseedStreams ELSE {lastRnd}) :
          /\ state' = stepParticles(state, rnd)
          /\ lastRnd' = rnd
    /\ reseeded' = (reseeded \/ AnyDiverged(state))
    /\ steps' = steps + 1
    /\ stepsLeft' = stepsLeft - 1
    /\ UNCHANGED <<selVars, canvasVars, geometry, origHeads, refSample, stepAccum, frame,
                   stepsPerFrame,
                   rateVars, sceneVars, handVars>>

\* A variant of tgtScale with a wider range.
tgtScaleWide(mscale) == FAdd[Lit(6, 10), FMul[mscale, Num(2)]]

\* const tgtScale = 0.6 + m.scale * 1.8
tgtScale(mscale) == FAdd[Lit(6, 10), FMul[mscale, Lit(18, 10)]]

\* A variant of TrackScale that steps past its target.
TrackScaleOvershoot(cur, mscale) ==
    FAdd[cur, FMul[FSub[tgtScale(mscale), cur], Lit(106, 100)]]

\* curScale.current += (tgtScale - curScale.current) * 0.06
TrackScale(cur, mscale) == FAdd[cur, FMul[FSub[tgtScale(mscale), cur], Lit(6, 100)]]

\* curBias.current += ((centre - 0.5) * gain - curBias.current) * 0.04
TrackBias(cur, centre, gain) ==
    FAdd[cur, FMul[FSub[FMul[FSub[centre, Lit(5, 10)], gain], cur], Lit(4, 100)]]

\* A variant of RelaxScale that steps past 1.0.
RelaxScaleOvershoot(cur) == FAdd[cur, FMul[FSub[Num(1), cur], Lit(103, 100)]]

\* curScale.current += (1.0 - curScale.current) * 0.03
RelaxScale(cur) == FAdd[cur, FMul[FSub[Num(1), cur], Lit(3, 100)]]

\* curBias.current *= 0.95
DecayBias(cur) == FMul[cur, Lit(95, 100)]

\* The rest of animate, after the step loop: the reset of stepAccum and the
\* hand interaction of lines 397-414, on the metrics read by getMetrics().
\* (The upload of the positions and the rotations, ring, shader and stars
\* of lines 381-423 write none of the variables here.)
FrameEnd ==
    /\ frame = "stepping"
    /\ stepsLeft = 0
    /\ stepAccum' = IF stepsPerFrame > 0 THEN 0 ELSE stepAccum
    /\ frame' = "idle"
    /\ IF present
       THEN /\ curScale' = TrackScale(curScale, mScale)
            /\ curBiasY' = TrackBias(curBiasY, mCenterX, Lit(12, 10))
            /\ curBiasX' = TrackBias(curBiasX, mCenterY, Lit(8, 10))
       ELSE /\ curScale' = RelaxScale(curScale)
            /\ curBiasX' = DecayBias(curBiasX)
            /\ curBiasY' = DecayBias(curBiasY)
    /\ UNCHANGED <<selVars, canvasVars, fieldVars, stepsPerFrame, stepsLeft, handVars>>

\* curScale.current after n frames with a hand at metrics.scale = mscale.
RECURSIVE ScaleAfter(_, _, _)
ScaleAfter(n, mscale, cur) ==
    IF n = 0 THEN cur
    ELSE CHOOSE out \in { ScaleAfter(n - 1, mscale, v) : v \in {TrackScale(cur, mscale)} }
         : TRUE

\* curBias.current after n frames with a hand at the coordinate centre.
RECURSIVE BiasAfter(_, _, _, _)
BiasAfter(n, centre, gain, cur) ==
    IF n = 0 THEN cur
    ELSE CHOOSE out \in { BiasAfter(n - 1, centre, gain, v) :
                          v \in {TrackBias(cur, centre, gain)} }
         : TRUE

\* ------------------------------------------------------- useHandTracking
\* now - lastFistRef.current > 800
COOLDOWN_MS == 800

\* Date.now() when the page loads, and the latest Date.now() explored.
EPOCH_MS == 1000
MaxClock == 2700

\* The time between two frames of the inference loop, in ms.
ClockSteps == {400, 401, 800}

\* What one pass of loop() meets: the video not ready (readyState < 2),
\* detectForVideo throwing, no landmarks, or a hand classified by
\* fingersClosed && thumbClosed.
FrameInputs == {"notReady", "throws", "noHand", "open", "fist"}

\* Variants of FistFires: a cooldown that admits the boundary, and no latch.
FistFiresAtBoundary(was, now, last) == ~was /\ now - last >= COOLDOWN_MS
FistFiresNoLatch(was, now, last) == now - last > COOLDOWN_MS

\* !wasFistRef.current && now - lastFistRef.current > 800
FistFires(was, now, last) == ~was /\ now - last > COOLDOWN_MS

\* A variant of FistLatch that a frame without a hand clears.
FistLatchClearedWithoutHand(input, was) == input = "fist"

\* wasFistRef.current after a pass: set by a fist frame (line 129), cleared
\* by a hand-detected frame that is not a fist (line 131).
FistLatch(input, was) ==
    CASE input = "fist" -> TRUE
      [] input = "open" -> FALSE
      [] OTHER -> was

\* baseline.current before its first assignment.
NullRef == DBL_MAX + 3

\* What the landmarks of a detected hand give: palmSize (line 94) and the
\* palm centre cx, cy (lines 102-103).  In the last pose the wrist lm[0]
\* and the knuckle lm[9] are at the same point.
Hands ==
    { [palmSize |-> Lit(2, 10), cx |-> Lit(5, 10), cy |-> Lit(5, 10)],
      [palmSize |-> Lit(3, 10), cx |-> Lit(8, 10), cy |-> Lit(2, 10)],
      [palmSize |-> 0, cx |-> Lit(5, 10), cy |-> Lit(5, 10)] }

\* The classifications a pose admits: fingersClosed compares distances
\* with palmSize * 0.7 by <, which no distance passes when palmSize is 0.
Admits(lm, input) == input = "fist" => lm.palmSize > 0

\* cur += (target - cur) * a
Ema(cur, target, a) == FAdd[cur, FMul[FSub[target, cur], a]]

\* Math.min(Math.max((palmSize / baseline.current - 0.6) / 1.0, 0), 1)
RawScale(palmSize, b) ==
    MathMin[MathMax[FDiv[FSub[FDiv[palmSize, b], Lit(6, 10)], Num(1)], 0], Num(1)]

\* The metrics and the smoothing refs as one record.
Metrics ==
    [present |-> present, centerX |-> mCenterX, centerY |-> mCenterY, scale |-> mScale,
     smoothX |-> smoothX, smoothY |-> smoothY, smoothScale |-> smoothScale,
     baseline |-> baseline]

\* Lines 92-116: the baseline, the smoothed centre and scale, and the
\* metrics object built from them, for a frame with the hand lm.
HandMetrics(lm, m) ==
    CHOOSE out \in
        { [present |-> TRUE, centerX |-> v[2], centerY |-> v[3], scale |-> v[4],
           smoothX |-> v[2], smoothY |-> v[3], smoothScale |-> v[4],
           baseline |-> v[1]] :
          v \in UNION { { << b,
                            Ema(m.smoothX, lm.cx, Lit(15, 100)),
                            Ema(m.smoothY, lm.cy, Lit(15, 100)),
                            Ema(m.smoothScale, RawScale(lm.palmSize, b), Lit(15, 100)) >> } :
                        b \in { Ema(b0, lm.palmSize, Lit(5, 1000)) :
                                b0 \in { IF m.baseline = NullRef THEN lm.palmSize
                                         ELSE m.baseline } } } } : TRUE

\* A variant of PassMetrics: a failed pass marks the hand as absent.
PassMetricsAbsentOnFailure(input, lm, m) ==
    IF input \in {"open", "fist"} THEN HandMetrics(lm, m)
    ELSE [m EXCEPT !.present = FALSE]

\* The metrics after one pass of loop(): written by the landmarks branch
\* (lines 92-116) and the no-hand branch (line 135) only.
PassMetrics(input, lm, m) ==
    IF input \in {"open", "fist"} THEN HandMetrics(lm, m)
    ELSE IF input = "noHand" THEN [m EXCEPT !.present = FALSE]
    ELSE m

\* A variant of PassStatus: a frame without landmarks leaves the status.
PassStatusKeptWithoutHand(input, s) ==
    IF input \in {"open", "fist"} THEN "" ELSE s

\* The status after one pass of loop(): written by the landmarks branch
\* (line 89) and the no-hand branch (line 134) only.
PassStatus(input, s) ==
    CASE input \in {"open", "fist"} -> ""
      [] input = "noHand" -> "No hand detected"
      [] OTHER -> s

\* The body of loop() past its guard, at Date.now() = t, with the status
\* s left by the code before it; it ends with requestAnimationFrame(loop).
\* The landmarks enter through lm and the frame's classification.
LoopBody(input, lm, t, s) ==
    /\ clock' = t
    /\ loopOn' = TRUE
    /\ lastPass' = input
    /\ statusRef' = PassStatus(input, s)
    /\ \E out \in {PassMetrics(input, lm, Metrics)} :
          /\ present' = out.present
          /\ mCenterX' = out.centerX
          /\ mCenterY' = out.centerY
          /\ mScale' = out.scale
          /\ smoothX' = out.smoothX
          /\ smoothY' = out.smoothY
          /\ smoothScale' = out.smoothScale
          /\ baseline' = out.baseline
    /\ wasFistRef' = FistLatch(input, wasFistRef)
    /\ lastHand' = IF input \in {"open", "fist"} THEN input ELSE lastHand
    /\ IF input = "fist" /\ FistFires(wasFistRef, t, lastFistRef)
       THEN /\ cycleAttractor
            /\ UNCHANGED <<pressVars, libVars>>
            /\ lastFistRef' = t
            /\ fistCalls' = fistCalls + 1
            /\ prevCall' = lastCall
            /\ lastCall' = t
            /\ heldCalls' = heldCalls + 1
       ELSE /\ UNCHANGED <<selVars, lastFistRef, fistCalls, prevCall, lastCall>>
            /\ heldCalls' = IF input = "open" THEN 0 ELSE heldCalls

\* The catch block of setup().
SetupFails ==
    /\ statusRef' = "Hand tracking failed"
    /\ setupAt' = "ended"

\* await import("@mediapipe/tasks-vision") resolves.
ImportResolves ==
    /\ ~InFrame
    /\ setupAt = "import"
    /\ setupAt' = "resolver"
    /\ UNCHANGED <<selVars, canvasVars, fieldVars, frameVars, loopVars,
                   active, failedAt, landmarkerRef, landmarker, videoRef, track, loopOn>>

\* await FilesetResolver.forVisionTasks(...) resolves.
ResolverResolves ==
    /\ ~InFrame
    /\ setupAt = "resolver"
    /\ setupAt' = "create"
    /\ UNCHANGED <<selVars, canvasVars, fieldVars, frameVars, loopVars,
                   active, failedAt, landmarkerRef, landmarker, videoRef, track, loopOn>>

\* await HandLandmarker.createFromOptions(...) resolves with lm:
\* if (!active) { lm.close(); return; }  landmarkerRef.current = lm;
\* then getUserMedia is called.
CreateResolves ==
    /\ ~InFrame
    /\ setupAt = "create"
    /\ IF ~active
       THEN /\ landmarker' = "closed"
            /\ setupAt' = "ended"
            /\ UNCHANGED landmarkerRef
       ELSE /\ landmarker' = "open"
            /\ landmarkerRef' = "lm"
            /\ setupAt' = "getUserMedia"
    /\ UNCHANGED <<selVars, canvasVars, fieldVars, frameVars, loopVars,
                   active, failedAt, videoRef, track, loopOn>>

\* await navigator.mediaDevices.getUserMedia(...) resolves with the stream:
\* the video element is created and stored, then its metadata is awaited.
StreamResolves ==
    /\ ~InFrame
    /\ setupAt = "getUserMedia"
    /\ track' = "live"
    /\ videoRef' = "video"
    /\ setupAt' = "metadata"
    /\ UNCHANGED <<selVars, canvasVars, fieldVars, frameVars, loopVars,
                   active, failedAt, landmarkerRef, landmarker, loopOn>>

\* One of the first four awaits rejects (import, wasm, model or camera).
AwaitRejects ==
    /\ ~InFrame
    /\ setupAt \in {"import", "resolver", "create", "getUserMedia"}
    /\ SetupFails
    /\ failedAt' = setupAt
    /\ UNCHANGED <<selVars, canvasVars, fieldVars, frameVars,
                   active, landmarkerRef, landmarker, videoRef, track, loopOn,
                   present, clock, lastFistRef, wasFistRef, fistCalls,
                   lastCall, prevCall, heldCalls, lastHand, lastPass, metricVars>>

\* The video does not start: v.play() rejects inside the onloadedmetadata
\* handler (or the event never fires).  The rejection is of the promise
\* returned by then(), which nothing awaits: the promise setup() awaits
\* never settles, and its catch block does not run.
VideoStartFails ==
    /\ ~InFrame
    /\ setupAt = "metadata"
    /\ setupAt' = "stalled"
    /\ failedAt' = "play"
    /\ UNCHANGED <<selVars, canvasVars, fieldVars, frameVars, loopVars,
                   active, landmarkerRef, landmarker, videoRef, track, loopOn>>

\* onloadedmetadata and v.play() resolve: the status is set and loop() runs
\* its first pass, or returns at its guard.
MetadataResolves(input, lm, t) ==
    /\ ~InFrame
    /\ setupAt = "metadata"
    /\ setupAt' = "ended"
    /\ IF active /\ landmarkerRef # "null" /\ videoRef # "null"
       THEN LoopBody(input, lm, t, "No hand detected")
       ELSE /\ statusRef' = "No hand detected"
            /\ UNCHANGED <<selVars, loopOn, present, clock, lastFistRef, wasFistRef,
                           fistCalls, lastCall, prevCall, heldCalls, lastHand,
                           lastPass, metricVars>>
    /\ UNCHANGED <<canvasVars, fieldVars, frameVars,
                   active, failedAt, landmarkerRef, landmarker, videoRef, track>>

\* A scheduled pass of loop().
LoopFrame(input, lm, t) ==
    /\ ~InFrame
    /\ loopOn
    /\ active /\ landmarkerRef # "null" /\ videoRef # "null"
    /\ LoopBody(input, lm, t, statusRef)
    /\ UNCHANGED <<canvasVars, fieldVars, frameVars,
                   active, failedAt, setupAt, landmarkerRef, landmarker, videoRef, track>>

\* The cleanup of the effect.
Teardown ==
    /\ ~InFrame
    /\ active
    /\ active' = FALSE
    /\ loopOn' = FALSE
    /\ track' = IF videoRef # "null" /\ track = "live" THEN "stopped" ELSE track
    /\ landmarker' = IF landmarkerRef # "null" THEN "closed" ELSE landmarker
    /\ UNCHANGED <<selVars, canvasVars, fieldVars, frameVars, loopVars,
                   setupAt, failedAt, landmarkerRef, videoRef>>

\* ------------------------------------------------ generateAttractorPoints
\* No call of generateAttractorPoints has started.
NoOrbit == [key |-> "lorenz", cloud |-> <<0, 0, 0>>, live |-> <<0, 0, 0>>,
            cloudN |-> 0, liveN |-> 0]

\* One iteration of the warm-up loop or of the point loop of
\* generateAttractorPoints: p = rk4(p, attractor.derive, attractor.params,
\* attractor.dt).
CloudStep ==
    /\ orbit' = [orbit EXCEPT !.cloud = rk4(orbit.cloud, orbit.key),
                              !.cloudN = orbit.cloudN + 1]
    /\ UNCHANGED <<attractorIndex, pending, events, base, cycles, pressVars,
                   canvasVars, fieldVars, frameVars, handVars>>

\* The step of one live particle in stepParticles, followed in exact
\* arithmetic: next = rk4Step(head, att).
LiveStep ==
    /\ orbit' = [orbit EXCEPT
                   !.live = LET next == rk4StepExact(orbit.live, orbit.key)
                            IN  <<next[1], next[2], next[3]>>,
                   !.liveN = orbit.liveN + 1]
    /\ UNCHANGED <<attractorIndex, pending, events, base, cycles, pressVars,
                   canvasVars, fieldVars, frameVars, handVars>>

\* ------------------------------------------------------- specifications
PressInit ==
    /\ pointerDownRef = NullPress
    /\ lastUp = NullPress
    /\ pointerEvents = 0
    /\ pressCycles = 0

SelInit ==
    /\ attractorIndex = 0
    /\ pending = <<>>
    /\ events = 0
    /\ base = 0
    /\ cycles = 0
    /\ PressInit

FrameInit ==
    /\ stepAccum = 0
    /\ frame = "idle"
    /\ stepsPerFrame = 0
    /\ stepsLeft = 0
    /\ elapsed = 0
    /\ interval = 0
    /\ curScale = Num(1)
    /\ curBiasX = 0
    /\ curBiasY = 0

\* The hook once its effect has run: setup() is at its first await.
HandInit ==
    /\ active = TRUE
    /\ setupAt = "import"
    /\ failedAt = "none"
    /\ landmarkerRef = "null"
    /\ landmarker = "none"
    /\ videoRef = "null"
    /\ track = "none"
    /\ statusRef = "Initializing"
    /\ present = FALSE
    /\ loopOn = FALSE
    /\ clock = EPOCH_MS
    /\ lastFistRef = 0
    /\ wasFistRef = FALSE
    /\ fistCalls = 0
    /\ lastCall = 0 - 1
    /\ prevCall = 0 - 1
    /\ heldCalls = 0
    /\ lastHand = "none"
    /\ lastPass = "none"
    /\ mCenterX = Lit(5, 10)
    /\ mCenterY = Lit(5, 10)
    /\ mScale = Lit(5, 10)
    /\ smoothX = Lit(5, 10)
    /\ smoothY = Lit(5, 10)
    /\ smoothScale = Lit(5, 10)
    /\ baseline = NullRef

\* The page before the canvas has mounted.
PageInit ==
    /\ SelInit
    /\ FrameInit
    /\ HandInit
    /\ mounted = FALSE
    /\ animOn = FALSE
    /\ cleaned = FALSE
    /\ prevIdxRef = 0 - 1
    /\ rebuilds = 0
    /\ state = NoField
    /\ steps = 0
    /\ origHeads = <<>>
    /\ refSample = <<>>
    /\ geometry = Attributes(NoField)
    /\ reseeded = FALSE
    /\ lastRnd = <<0, 0>>

\* The application.
Init == PageInit /\ orbit = NoOrbit

\* The bounds of the exploration are stated here, outside the actions.
MoreEvents(max) == events < max /\ Len(pending) < MaxPending

AppStreams == {<<0, 1>>, <<1, 2>>}

Next ==
    \/ MoreEvents(MaxAppEvents) /\ CycleEvent
    \/ MoreEvents(MaxAppEvents) /\ \E v \in 0..(N - 1) : SelectEvent(v)
    \/ \E rnd \in AppStreams : Mount(rnd)
    \/ \E rnd \in AppStreams : Render(rnd)
    \/ steps < MaxAppSteps /\ \E delta \in FrameDeltas : FrameBegin(delta)
    \/ StepCall
    \/ FrameEnd

Spec == Init /\ [][Next]_vars

\* The selection alone: the canvas has not mounted.
NextSel ==
    \/ MoreEvents(MaxEvents) /\ CycleEvent
    \/ MoreEvents(MaxEvents) /\ \E v \in 0..(N - 1) : SelectEvent(v)
    \/ \E rnd \in AppStreams : Render(rnd)

SpecSel == Init /\ [][NextSel]_vars

\* Presses and releases of the pointer on the page, with the renders that
\* consume the cycles.
MaxPointerEvents == 3
PointerXs == {100, 103, 106}
PointerYs == {200, 204}
PressTimes == {100, 249, 250}

NextTap ==
    \/ /\ pointerEvents < MaxPointerEvents
       /\ \E x \in PointerXs : \E y \in PointerYs : \E d \in PressTimes :
             onPointerDown(x, y, clock + d)
    \/ /\ pointerEvents < MaxPointerEvents
       /\ Len(pending) < MaxPending
       /\ \E x \in PointerXs : \E y \in PointerYs : \E d \in PressTimes :
             onPointerUp(x, y, clock + d)
    \/ \E rnd \in AppStreams : Render(rnd)

SpecTap == Init /\ [][NextTap]_vars

\* The two integrators side by side, from attractor.initial and from other
\* starting states, for every attractor.
MaxOrbitSteps == 3
ExactStarts(key) ==
    { initialExact(key),
      <<XLit(1, 1), XLit(1, 1), XLit(1, 1)>>,
      <<XLit(2, 1), XNeg[XLit(1, 1)], XLit(3, 1)>>,
      <<XLit(1, 2), XLit(1, 3), XLit(5, 1)>> }

InitOrbit ==
    /\ PageInit
    /\ \E key \in AttractorKey : \E p \in ExactStarts(key) :
          orbit = [key |-> key, cloud |-> p, live |-> p, cloudN |-> 0, liveN |-> 0]

NextOrbit ==
    \/ orbit.cloudN < MaxOrbitSteps /\ CloudStep
    \/ orbit.liveN < MaxOrbitSteps /\ LiveStep

SpecOrbit == InitOrbit /\ [][NextOrbit]_vars

\* A mounted canvas showing the field st of attractor idx.
InitCanvas(idx, st, rnd) ==
    /\ attractorIndex = idx
    /\ pending = <<>>
    /\ events = 0
    /\ base = idx
    /\ cycles = 0
    /\ PressInit
    /\ orbit = NoOrbit
    /\ mounted = TRUE
    /\ animOn = TRUE
    /\ cleaned = FALSE
    /\ prevIdxRef = idx
    /\ rebuilds = 0
    /\ state = st
    /\ steps = 0
    /\ origHeads = st.heads
    /\ refSample = RefPts(st.key)
    /\ geometry = Attributes(st)
    /\ reseeded = FALSE
    /\ lastRnd = rnd

\* The same, with the hook at the start of its setup.
InitMounted(idx, st, rnd) ==
    /\ InitCanvas(idx, st, rnd)
    /\ HandInit

\* The field of a mounted canvas, for any selection at mount.
InitField ==
    \E idx \in 0..(N - 1) : \E rnd \in Streams :
        /\ InitMounted(idx, initParticles(KeyOf(idx), rnd), rnd)
        /\ FrameInit

NextField ==
    \/ steps < MaxSteps /\ \E delta \in FrameDeltas : FrameBegin(delta)
    \/ StepCall
    \/ FrameEnd

SpecField == InitField /\ [][NextField]_vars

\* stepParticles as a function of its argument: fields whose heads are any
\* of the sample points as the heads buffer stores them, each trail at its
\* normalized head.
SamplePoints ==
    { <<Num(1), Num(1), Num(1)>>,
      <<Num(20000), 0, 0>>,
      <<0, Num(20000), 0>>,
      <<0, 0, Num(20000)>> }

FieldAt(key, pts) ==
    Field(key,
          [k \in 1..(PARTICLE_COUNT * 3) |->
              fround[pts[(k - 1) \div 3][((k - 1) % 3) + 1]]],
          [k \in 1..(TOTAL_POINTS * 3) |->
              Normalized3(pts[(k - 1) \div (3 * TRAIL_LENGTH)],
                          NormTable[key].normCenter,
                          NormTable[key].normScale)[((k - 1) % 3) + 1]])

\* animate at the top of its step loop, with the iterations of a frame to run.
InitStep ==
    \E idx \in 0..(N - 1) : \E pts \in [0..(PARTICLE_COUNT - 1) -> SamplePoints] :
        \E n \in {StepsFor(d) : d \in FrameDeltas} \ {0} :
            /\ InitMounted(idx, FieldAt(KeyOf(idx), pts), <<0, 0>>)
            /\ stepAccum = n * Lit(8, 1000)
            /\ frame = "stepping"
            /\ stepsPerFrame = n
            /\ stepsLeft = n
            /\ elapsed = n * Lit(8, 1000)
            /\ interval = n * Lit(8, 1000)
            /\ curScale = Num(1)
            /\ curBiasX = 0
            /\ curBiasY = 0

NextStep ==
    \/ StepCall
    \/ FrameEnd

SpecStep == InitStep /\ [][NextStep]_vars

\* Fields from their creation on, and fields met in mid-life with heads
\* that make reseeds fire.
SpecBuffers == (InitField \/ InitStep) /\ [][NextField]_vars

\* initParticles as a function of its reference sample: samples of one to
\* three points, among them samples of zero extent on some or all axes.
InitPoints ==
    { <<Num(1), Num(1), Num(1)>>,
      <<0 - Num(10), 0 - Num(20), Num(5)>>,
      <<Num(15), Num(25), Num(45)>>,
      <<0, 0, Num(25)>> }

RefSamples ==
    { <<a>> : a \in InitPoints }
      \cup { <<a, b>> : a \in InitPoints, b \in InitPoints }
      \cup { <<a, b, c>> : a \in InitPoints, b \in InitPoints, c \in InitPoints }

NextInit == \E refPts \in RefSamples : \E rnd \in Streams : MountFrom(refPts, rnd)

SpecInit == Init /\ [][NextInit]_vars

\* Runs of animate at one constant frame interval, for the length of time
\* MaxSpan.
MaxSpan == Lit(132, 1000)

NextRate ==
    \/ /\ elapsed < MaxSpan
       /\ \E delta \in FrameDeltas : interval \in {0, delta} /\ FrameBegin(delta)
    \/ StepCall
    \/ FrameEnd

SpecRate == InitField /\ [][NextRate]_vars

\* The hand interaction of animate as a function of the refs and the
\* metrics it reads: a mounted canvas whose scale and biases are anywhere in
\* the ranges the interaction can bring them to, under metrics that stay as
\* they are (no pass of loop() runs between the frames).
ScaleSamples == {Lit(6, 10), Lit(99, 100), Num(1), Lit(101, 100), Lit(17, 10), Lit(24, 10)}
BiasSamples == {0 - Lit(4, 10), 0 - Lit(1, 1000), 0, Lit(1, 1000), Lit(3, 10)}
MetricSamples ==
    { <<Lit(1, 10), Lit(2, 10), Lit(8, 10)>>, <<Lit(5, 10), Lit(5, 10), Lit(5, 10)>>,
      <<Lit(9, 10), Lit(8, 10), Lit(2, 10)>> }

\* The hook with a hand being tracked: setup() has ended, loop() is
\* running and its latest pass published the metrics m.
HandTracked(m) ==
    /\ active = TRUE
    /\ setupAt = "ended"
    /\ failedAt = "none"
    /\ landmarkerRef = "lm"
    /\ landmarker = "open"
    /\ videoRef = "video"
    /\ track = "live"
    /\ statusRef = ""
    /\ present = TRUE
    /\ loopOn = TRUE
    /\ clock = EPOCH_MS
    /\ lastFistRef = 0
    /\ wasFistRef = FALSE
    /\ fistCalls = 0
    /\ lastCall = 0 - 1
    /\ prevCall = 0 - 1
    /\ heldCalls = 0
    /\ lastHand = "open"
    /\ lastPass = "open"
    /\ mScale = m[1]
    /\ mCenterX = m[2]
    /\ mCenterY = m[3]
    /\ smoothScale = m[1]
    /\ smoothX = m[2]
    /\ smoothY = m[3]
    /\ baseline = Lit(2, 10)

InitScene ==
    /\ InitCanvas(0, initParticles(KeyOf(0), <<0, 1>>), <<0, 1>>)
    /\ HandInit \/ \E m \in MetricSamples : HandTracked(m)
    /\ stepAccum = 0
    /\ frame = "idle"
    /\ stepsPerFrame = 0
    /\ stepsLeft = 0
    /\ elapsed = 0
    /\ interval = 0
    /\ curScale \in ScaleSamples
    /\ curBiasX \in BiasSamples
    /\ curBiasY \in BiasSamples

NextScene ==
    \/ steps < MaxSteps /\ FrameBegin(Lit(4, 1000))
    \/ StepCall
    \/ FrameEnd

SpecScene == InitScene /\ [][NextScene]_vars

\* The render loop under metrics that change between its frames.  The
\* passes of loop() between two frames leave the metrics m, with a hand
\* present or not; the hook is consumed here by what it publishes.
MetricsPublished(p, m) ==
    /\ ~InFrame
    /\ <<p, m>> # <<present, <<mScale, mCenterX, mCenterY>>>>
    /\ present' = p
    /\ statusRef' = IF p THEN "" ELSE "No hand detected"
    /\ lastPass' = IF p THEN "open" ELSE "noHand"
    /\ mScale' = m[1]
    /\ mCenterX' = m[2]
    /\ mCenterY' = m[3]
    /\ smoothScale' = m[1]
    /\ smoothX' = m[2]
    /\ smoothY' = m[3]
    /\ UNCHANGED <<selVars, canvasVars, fieldVars, frameVars, setupVars, clock,
                   lastFistRef, wasFistRef, fistCalls, lastCall, prevCall, heldCalls,
                   lastHand, baseline>>

\* Metrics at the ends and in the middle of [0, 1].
UnitMetrics ==
    { <<0, 0, 0>>, <<Num(1), Num(1), Num(1)>>, <<Lit(5, 10), Num(1), 0>> }

\* Frames for which a hand is held at the metrics m before the first frame
\* explored: none, or four runs of SettleFrames, enough for the scale and
\* the biases to settle.
SettleFrames == 30

ScaleSettled(mscale) ==
    CHOOSE out \in
        { ScaleAfter(SettleFrames, mscale, c) :
          c \in { ScaleAfter(SettleFrames, mscale, b) :
                  b \in { ScaleAfter(SettleFrames, mscale, a) :
                          a \in {ScaleAfter(SettleFrames, mscale, Num(1))} } } }
    : TRUE

BiasSettled(centre, gain) ==
    CHOOSE out \in
        { BiasAfter(SettleFrames, centre, gain, c) :
          c \in { BiasAfter(SettleFrames, centre, gain, b) :
                  b \in { BiasAfter(SettleFrames, centre, gain, a) :
                          a \in {BiasAfter(SettleFrames, centre, gain, 0)} } } }
    : TRUE

InitDrive ==
    /\ InitCanvas(0, initParticles(KeyOf(0), <<0, 1>>), <<0, 1>>)
    /\ \E m \in UnitMetrics :
          /\ HandTracked(m)
          /\ \/ curScale = Num(1) /\ curBiasY = 0 /\ curBiasX = 0
             \/ /\ curScale = ScaleSettled(m[1])
                /\ curBiasY = BiasSettled(m[2], Lit(12, 10))
                /\ curBiasX = BiasSettled(m[3], Lit(8, 10))
    /\ stepAccum = 0
    /\ frame = "idle"
    /\ stepsPerFrame = 0
    /\ stepsLeft = 0
    /\ elapsed = 0
    /\ interval = 0

NextDrive ==
    \/ steps < MaxSteps /\ FrameBegin(Lit(16, 1000))
    \/ StepCall
    \/ FrameEnd
    \/ \E p \in BOOLEAN : \E m \in UnitMetrics : MetricsPublished(p, m)

SpecDrive == InitDrive /\ [][NextDrive]_vars

\* The hand-tracking hook, with the renders that consume its fist events.
NextHand ==
    \/ ImportResolves
    \/ ResolverResolves
    \/ CreateResolves
    \/ StreamResolves
    \/ AwaitRejects
    \/ VideoStartFails
    \/ \E input \in FrameInputs : \E lm \in Hands : \E d \in ClockSteps :
          Admits(lm, input) /\ MetadataResolves(input, lm, clock + d)
    \/ /\ clock < MaxClock
       /\ Len(pending) < MaxPending
       /\ \E input \in FrameInputs : \E lm \in Hands : \E d \in ClockSteps :
             Admits(lm, input) /\ LoopFrame(input, lm, clock + d)
    \/ Teardown
    \/ \E rnd \in AppStreams : Render(rnd)

SpecHand == Init /\ [][NextHand]_vars

\* The page from load to unmount: both periodic callbacks and both cleanups.
LifeInputs == {"noHand", "open", "fist"}
LifeHands == { [palmSize |-> Lit(2, 10), cx |-> Lit(5, 10), cy |-> Lit(5, 10)] }

NextLife ==
    \/ Mount(<<0, 1>>)
    \/ steps < MaxAppSteps /\ FrameBegin(Lit(16, 1000))
    \/ StepCall
    \/ FrameEnd
    \/ Unmount
    \/ ImportResolves
    \/ ResolverResolves
    \/ CreateResolves
    \/ StreamResolves
    \/ AwaitRejects
    \/ VideoStartFails
    \/ \E input \in LifeInputs : \E lm \in LifeHands :
          MetadataResolves(input, lm, clock + COOLDOWN_MS + 1)
    \/ /\ clock < MaxClock
       /\ Len(pending) < MaxPending
       /\ \E input \in LifeInputs : \E lm \in LifeHands :
             LoopFrame(input, lm, clock + COOLDOWN_MS + 1)
    \/ Teardown

SpecLife == Init /\ [][NextLife]_vars

\* --------------------------------------------------------------- claims
\* The normalized point stored at sub-point t of particle i.
PointAt(positions, i, t) ==
    << positions[PosIdx(i, t, 1)], positions[PosIdx(i, t, 2)], positions[PosIdx(i, t, 3)] >>

\* The point j as the heads buffer holds it.
Stored3(j) == << fround[j[1]], fround[j[2]], fround[j[3]] >>

Particles == 0..(PARTICLE_COUNT - 1)

\* The action is a stepParticles call.
IsStepCall == steps' = steps + 1

\* C1: one cycle event takes the selection i to (i + 1) mod N, for every i
\* in 0..N-1; N cycle events from index 0 lead back to 0 (after any number
\* of cycle events since the last direct jump, the rendered selection is
\* the jump's index plus that number, mod N); the selection never leaves
\* 0..N-1.
C1_CycleAdvancesModN ==
    /\ [](attractorIndex \in 0..(N - 1))
    /\ [](pending = <<>> => attractorIndex = (base + cycles) % N)
    /\ [][(pending = <<CycleUpdate>> /\ pending' = <<>>)
            => attractorIndex' = (attractorIndex + 1) % N]_vars

C1_Witness ==
    /\ base = 0
    /\ cycles = N
    /\ events = N
    /\ pending = <<>>
    /\ attractorIndex = 0

\* C2, as stated: a render on a mounted canvas performs one reconstruction
\* for each selection transition queued before it.
C2_OneRebuildPerTransition ==
    [][(mounted /\ pending # <<>> /\ pending' = <<>>)
         => rebuilds' = rebuilds + Len(pending)]_vars

\* C2, amended: every change of the rendered selection on a mounted canvas
\* performs exactly one reconstruction, the result of initParticles for the
\* newly rendered attractor alone (no value of the previous field enters
\* it), and no reconstruction happens without such a change; transitions
\* applied in one render share one reconstruction.
C2_OneRebuildPerRenderedChange ==
    /\ [][(mounted /\ attractorIndex' # attractorIndex)
            => /\ rebuilds' = rebuilds + 1
               /\ prevIdxRef' = attractorIndex'
               /\ steps' = 0
               /\ \E rnd \in AppStreams :
                     state' = initParticles(KeyOf(attractorIndex'), rnd)]_vars
    /\ [][rebuilds' # rebuilds => (mounted /\ attractorIndex' # attractorIndex)]_vars

C2_Witness ==
    /\ mounted
    /\ pending = <<>>
    /\ events = 2
    /\ cycles = 2
    /\ rebuilds = 1
    /\ attractorIndex = 2
    /\ state.key = KeyOf(2)

\* C3: any two invocations of onFist are more than 800 ms of Date.now()
\* apart (stated on every invocation and the one before it).
C3_CallsApartByCooldown ==
    prevCall >= 0 => lastCall - prevCall > COOLDOWN_MS

C3_Witness ==
    /\ fistCalls = 2
    /\ lastCall - prevCall = COOLDOWN_MS + 1

\* C4: onFist is invoked only on a fist frame whose latest preceding
\* hand-detected frame was not a fist (or that is the first hand-detected
\* frame), and a closed hand held over any frames, frames without a hand
\* included, invokes it at most once.
C4_OncePerHeldFist ==
    /\ [](heldCalls <= 1)
    /\ [][fistCalls' # fistCalls => (lastHand # "fist" /\ lastHand' = "fist")]_vars

C4_Witness ==
    /\ heldCalls = 1
    /\ lastHand = "fist"
    /\ wasFistRef
    /\ ~present
    /\ clock - lastCall > COOLDOWN_MS

\* The trail of every particle after a stepParticles call: sub-point t > 0
\* is the sub-point t - 1 of before the call.
TrailShifted ==
    \A i \in Particles : \A t \in 1..(TRAIL_LENGTH - 1) :
        PointAt(state'.positions, i, t) = PointAt(state.positions, i, t - 1)

\* C5, as stated: after one stepParticles call the trail is shifted and
\* sub-point 0 is the normalization of the head the call stored.
C5_HeadSlotFromStoredHead ==
    [][IsStepCall =>
         /\ TrailShifted
         /\ \A i \in Particles :
               PointAt(state'.positions, i, 0)
                 = Normalized3(HeadOf(state'.heads, i), state.normCenter, state.normScale)]_vars

\* C5, amended: after one stepParticles call the trail is shifted, and
\* sub-point 0 is the normalization of the value `next` of the call (the
\* integration result, or the reseed value), stored as a float32, where the
\* stored head is `next` stored as a float32: the two buffers round the same
\* value separately.
C5_HeadSlotFromNext ==
    [][IsStepCall =>
         /\ TrailShifted
         /\ \A i \in Particles :
               /\ PointAt(state'.positions, i, 0)
                    = Normalized3(NextHead(state, i, lastRnd'),
                                  state.normCenter, state.normScale)
               /\ HeadOf(state'.heads, i) = Stored3(NextHead(state, i, lastRnd'))]_vars

C5_Witness ==
    /\ steps = 2
    /\ ~reseeded
    /\ PointAt(state.positions, 0, 0) # PointAt(state.positions, 0, 1)
    /\ PointAt(state.positions, 0, 1) # PointAt(state.positions, 0, 2)
    /\ PointAt(state.positions, 0, 2)
         = Normalized3(HeadOf(origHeads, 0), state.normCenter, state.normScale)

\* Some coordinate of p is non-finite or beyond the divergence threshold.
Invalid(p) ==
    \E c \in 1..3 : ~isFinite(p[c]) \/ FGt[MathAbs[p[c]], DIVERGENCE_LIMIT]

Finite3(p) == \A c \in 1..3 : isFinite(p[c])

\* 0.05, the radius of the reseed jitter; the stored head is within it up
\* to the rounding of the float32 store.
JITTER_RADIUS == Lit(5, 100)
NearInitial(h, key) ==
    \A c \in 1..3 :
        /\ isFinite(h[c])
        /\ IAbs(h[c] - initial(key)[c]) <= JITTER_RADIUS + F32_GRID

\* C6, as stated: in a stepParticles call, for every particle with a
\* finite head, if any coordinate of the RK4 result is non-finite or
\* beyond 1e4 in magnitude, the head stored is a reseed value.
C6_ReseedOnAnyInvalidCoordinate ==
    [][IsStepCall =>
         \A i \in Particles :
            (/\ Finite3(HeadOf(state.heads, i))
             /\ Invalid(rk4Step(HeadOf(state.heads, i), state.key)))
            => NearInitial(HeadOf(state'.heads, i), state.key)]_vars

C8_NormalizationFrozen ==
    /\ [][IsStepCall =>
            /\ state'.normCenter = state.normCenter
            /\ state'.normScale = state.normScale
            /\ state'.key = state.key]_vars
    /\ [](/\ state.normCenter = NormTable[state.key].normCenter
          /\ state.normScale = NormTable[state.key].normScale)

C8_Witness ==
    /\ steps = 2
    /\ reseeded
    /\ \E i \in Particles : NearInitial(HeadOf(state.heads, i), state.key)

\* The head h after n stepParticles calls without a reseed: rk4Step, each
\* result stored in the heads buffer before the next call reads it.
RECURSIVE StepsStored(_, _, _)
StepsStored(h, key, n) ==
    IF n = 0 THEN h
    ELSE CHOOSE out \in
            { StepsStored(g, key, n - 1) : g \in {Stored3(rk4Step(h, key))} }
         : TRUE

\* The head h after rk4Step applied n times in sequence.
RECURSIVE StepsExact(_, _, _)
StepsExact(h, key, n) ==
    IF n = 0 THEN h
    ELSE CHOOSE out \in
            { StepsExact(g, key, n - 1) : g \in {rk4Step(h, key)} }
         : TRUE

\* C9, as stated: with no reseed, the heads after any split of n steps
\* over frames are rk4Step applied n times in sequence to the heads the
\* field started with.
C9_HeadsAreIteratedRk4 ==
    (mounted /\ ~reseeded) =>
        \A i \in Particles :
            HeadOf(state.heads, i) = StepsExact(HeadOf(origHeads, i), state.key, steps)

\* C9, amended: with no reseed, the heads after any split of n steps over
\* frames are the same, namely rk4Step applied n times to the heads the
\* field started with, each result rounded by the float32 store before the
\* next application.
C9_HeadsAreIteratedStoredRk4 ==
    (mounted /\ ~reseeded) =>
        \A i \in Particles :
            HeadOf(state.heads, i) = StepsStored(HeadOf(origHeads, i), state.key, steps)

C9_Witness ==
    /\ mounted
    /\ ~reseeded
    /\ steps = MaxSteps
    /\ stepsPerFrame = 2
    /\ stepsLeft = 0
    /\ state.heads # origHeads

\* C10, as stated: once teardown has run and setup has come to its end, no
\* camera track is live and no landmarker is open.
C10_AllReleased ==
    (~active /\ setupAt = "ended") => (track # "live" /\ landmarker # "open")


\* C11: once the cleanup of the canvas has run, no step changes the field
\* or counts a stepParticles call; once the cleanup of the hook has run, no
\* step is a pass of loop() (the clock of its latest pass, the metrics and
\* the fist invocations stay), and the status is written only by the
\* continuation of setup() that was still suspended at an await.
C11_NoWorkAfterTeardown ==
    [][ /\ (cleaned => /\ steps' = steps
                       /\ state' = state)
        /\ (~active => /\ clock' = clock
                       /\ present' = present
                       /\ fistCalls' = fistCalls
                       /\ lastFistRef' = lastFistRef
                       /\ wasFistRef' = wasFistRef
                       /\ (statusRef' # statusRef =>
                              setupAt # "ended" /\ setupAt' = "ended")) ]_vars

\* Both loops have worked (a step, a fist invocation) and both cleanups ran.
C11_Witness ==
    /\ cleaned
    /\ ~active
    /\ steps > 0
    /\ fistCalls > 0
    /\ setupAt = "ended"


\* C12: once a step of the setup has failed, the status reads "Hand tracking
\* failed", the metrics say that no hand is present, no pass of loop() is
\* scheduled and onFist has not been invoked.
C12_FailureSurfaced ==
    failedAt # "none" =>
        /\ statusRef = "Hand tracking failed"
        /\ ~present
        /\ ~loopOn
        /\ fistCalls = 0


\* C13: a pass of loop() that finds the video not ready, or whose inference
\* throws, leaves the metrics and the smoothing state as they were, invokes
\* no fist callback and requests the next pass; and the metrics change only
\* in a pass whose inference succeeds.
C13_FailedPassKeepsMetrics ==
    [][ /\ (clock' # clock /\ lastPass' \in {"notReady", "throws"} =>
               /\ UNCHANGED <<present, metricVars>>
               /\ fistCalls' = fistCalls
               /\ pending' = pending
               /\ loopOn')
        /\ (<<present, metricVars>>' # <<present, metricVars>> =>
               clock' # clock /\ lastPass' \in {"noHand", "open", "fist"}) ]_vars

\* A hand has been tracked away from the defaults, and the latest pass threw.
C13_Witness ==
    /\ lastPass = "throws"
    /\ present
    /\ mCenterX # Lit(5, 10)
    /\ wasFistRef
    /\ loopOn


\* A step that completes a frame of animate.
EndsFrame == frame = "stepping" /\ frame' = "idle"

\* |x - 1.0| for a scale x.
DistFromOne(x) == IAbs(x - Num(1))

\* C14 as stated: on every frame without a hand, the distance of the visual
\* scale from 1.0 strictly decreases while the scale differs from 1.0.
C14_StrictlyCloserEachFrame ==
    [][(EndsFrame /\ ~present /\ curScale # Num(1))
         => DistFromOne(curScale') < DistFromOne(curScale)]_vars

\* C14, amended: on every frame without a hand the visual scale becomes
\* s + (1 - s) * 0.03; its distance from 1.0 never increases and strictly
\* decreases while the increment (1 - s) * 0.03 is large enough to change s
\* in the arithmetic of the program; it stays on its side of 1.0; and each
\* rotational bias is multiplied by 0.95, keeping its sign and never
\* growing in magnitude.
C14_RelaxesWithoutCrossing ==
    [][(EndsFrame /\ ~present) =>
         /\ curScale' = FAdd[curScale, FMul[FSub[Num(1), curScale], Lit(3, 100)]]
         /\ DistFromOne(curScale') <= DistFromOne(curScale)
         /\ (FMul[FSub[Num(1), curScale], Lit(3, 100)] # 0
               => DistFromOne(curScale') < DistFromOne(curScale))
         /\ (curScale >= Num(1) => curScale' >= Num(1))
         /\ (curScale <= Num(1) => curScale' <= Num(1))
         /\ curBiasX' = FMul[curBiasX, Lit(95, 100)]
         /\ curBiasY' = FMul[curBiasY, Lit(95, 100)]
         /\ IAbs(curBiasX') <= IAbs(curBiasX)
         /\ IAbs(curBiasY') <= IAbs(curBiasY)
         /\ Sgn(curBiasX') = Sgn(curBiasX)
         /\ Sgn(curBiasY') = Sgn(curBiasY)]_vars

\* Frames without a hand have brought a scale that started at 0.6 closer to
\* 1.0, and a positive and a negative bias closer to 0.
C14_Witness ==
    /\ ~present
    /\ frame = "idle"
    /\ steps >= 2
    /\ curScale > Lit(6, 10) + Lit(3, 100)
    /\ curScale < Num(1)
    /\ curBiasX > 0
    /\ curBiasX < Lit(3, 10)
    /\ curBiasY < 0
    /\ curBiasY > 0 - Lit(4, 10)


\* C15: on every frame with a hand present the visual scale becomes
\* s + (T - s) * 0.06 for T = 0.6 + 1.8 * metrics.scale and lies between s
\* and T; biasY becomes b + ((centerX - 0.5) * 1.2 - b) * 0.04 and biasX
\* becomes b + ((centerY - 0.5) * 0.8 - b) * 0.04, each from its own
\* previous value and its own coordinate alone, and neither passes its target.
C15_TracksHandWithoutOvershoot ==
    [][(EndsFrame /\ present) =>
         LET T == FAdd[Lit(6, 10), FMul[mScale, Lit(18, 10)]]
             TY == FMul[FSub[mCenterX, Lit(5, 10)], Lit(12, 10)]
             TX == FMul[FSub[mCenterY, Lit(5, 10)], Lit(8, 10)]
             Between(a, x, b) == (a <= x /\ x <= b) \/ (b <= x /\ x <= a)
         IN  /\ curScale' = FAdd[curScale, FMul[FSub[T, curScale], Lit(6, 100)]]
             /\ Between(curScale, curScale', T)
             /\ curBiasY' = FAdd[curBiasY, FMul[FSub[TY, curBiasY], Lit(4, 100)]]
             /\ curBiasX' = FAdd[curBiasX, FMul[FSub[TX, curBiasX], Lit(4, 100)]]
             /\ Between(curBiasY, curBiasY', TY)
             /\ Between(curBiasX, curBiasX', TX)]_vars

\* Frames with a hand at scale 0.9, centre (0.8, 0.2) have moved a scale
\* that started at 0.6 toward 2.22, biasY up toward 0.36 and biasX down
\* toward -0.24.
C15_Witness ==
    /\ present
    /\ frame = "idle"
    /\ steps >= 2
    /\ mScale = Lit(9, 10)
    /\ curScale > Lit(8, 10)
    /\ curScale < Num(1)
    /\ curBiasY > 0 - Lit(4, 10)
    /\ curBiasY < 0 - Lit(2, 10)
    /\ curBiasX < Lit(3, 10)
    /\ curBiasX > Lit(2, 10)


\* The stepParticles calls of a run of animate at the constant frame
\* interval d over the time span, from an empty accumulator: each frame adds
\* d to the accumulator, runs StepsFor of it, and empties it if it ran any.
RECURSIVE StepsOver(_, _, _, _)
StepsOver(d, span, accum, count) ==
    IF span < d THEN count
    ELSE LET n == StepsFor(accum + d)
         IN  StepsOver(d, span - d, IF n > 0 THEN 0 ELSE accum + d, count + n)

\* C16: between two frames of a run at one constant frame interval, the
\* number of stepParticles calls made so far is the number that a run at
\* any other constant interval makes over the same span of time (compared
\* at the times that are a whole number of frames of both).
C16_StepRateIndependentOfFrameRate ==
    (frame = "idle" /\ interval > 0) =>
        \A d \in FrameDeltas :
            elapsed % d = 0 => steps = StepsOver(d, elapsed, 0, 0)


\* The classical fourth-order Runge-Kutta step of the system of attractor
\* key from the point p, written out from the textbook scheme.
ClassicalRk4(p, key) ==
    LET h == dt(key)
        Along(k, c) == << FAdd[p[1], FMul[FMul[k[1], h], c]],
                          FAdd[p[2], FMul[FMul[k[2], h], c]],
                          FAdd[p[3], FMul[FMul[k[3], h], c]] >>
        k1 == derive(key, p)
        k2 == derive(key, Along(k1, Lit(5, 10)))
        k3 == derive(key, Along(k2, Lit(5, 10)))
        k4 == derive(key, Along(k3, Num(1)))
    IN  [c \in 1..3 |->
            FAdd[p[c],
                 FDiv[FMul[FAdd[FAdd[FAdd[k1[c], FMul[Num(2), k2[c]]],
                                     FMul[Num(2), k3[c]]], k4[c]], h],
                      Num(6)]]]

\* C17: in every stepParticles call, the head written for a particle whose
\* result passes the divergence check is the classical RK4 step of the head
\* that was read (as the buffer stores it), for every attractor; it is
\* determined by that head and the attractor alone, so particles that enter
\* the call with equal heads leave it with equal heads.
C17_Rk4StepIsPureClassicalStep ==
    [][IsStepCall =>
         /\ \A i \in Particles :
               LET p == HeadOf(state.heads, i)
                   next == ClassicalRk4(p, state.key)
               IN  /\ rk4Step(p, state.key) = <<next[1], next[2], next[3]>>
                   /\ (~Diverged(rk4Step(p, state.key)) =>
                         HeadOf(state'.heads, i) = Stored3(<<next[1], next[2], next[3]>>))
         /\ \A i, j \in Particles :
               (/\ HeadOf(state.heads, i) = HeadOf(state.heads, j)
                /\ ~Diverged(rk4Step(HeadOf(state.heads, i), state.key)))
                  => HeadOf(state'.heads, i) = HeadOf(state'.heads, j)]_vars

\* Two particles that started at the same point of the thomas attractor
\* have been stepped, without a reseed, to a common new point.
C17_Witness ==
    /\ state.key = "thomas"
    /\ steps >= 2
    /\ ~reseeded
    /\ HeadOf(state.heads, 0) = HeadOf(state.heads, 1)
    /\ HeadOf(state.heads, 0) # HeadOf(origHeads, 0)


\* The values of coordinate c over the reference sample, and the extent of
\* the sample on axis c.
AxisValues(c) == { refSample[k][c] : k \in 1..Len(refSample) }
AxisMin(c) == CHOOSE v \in AxisValues(c) : \A w \in AxisValues(c) : v <= w
AxisMax(c) == CHOOSE v \in AxisValues(c) : \A w \in AxisValues(c) : w <= v
AxisExtent(c) == AxisMax(c) - AxisMin(c)
LargestExtent == CHOOSE e \in {AxisExtent(c) : c \in 1..3} : \A c \in 1..3 : AxisExtent(c) <= e

\* A field that initParticles has just returned.
FreshField == mounted /\ steps = 0 /\ refSample # <<>>

\* C18: in the field initParticles returns, normCenter is the per-axis
\* midpoint (min + max) / 2 of the bounding box of the reference sample and
\* normScale is the largest axis extent of that box, or 1 when that extent
\* is zero: both are determined by the sample alone, and normScale is
\* never 0.
C18_NormalizationFromSample ==
    FreshField =>
        /\ \A c \in 1..3 : state.normCenter[c] = FDiv[AxisMin(c) + AxisMax(c), Num(2)]
        /\ state.normScale = (IF LargestExtent = 0 THEN Num(1) ELSE LargestExtent)
        /\ state.normScale # 0

\* A field from a sample whose points are all the same (zero extent).
C18_Witness ==
    /\ FreshField
    /\ Len(refSample) = 3
    /\ LargestExtent = 0
    /\ state.normScale = Num(1)


\* The jittered point computed for particle i by the call of initParticles
\* that made the current field, before it is stored.
JitteredPoint(i) == ScatterPoint(i, refSample, lastRnd, state.normScale)

\* C19 as stated: in the field initParticles returns, every sub-point of
\* every particle's trail is the normalized head of the particle, the head
\* being the one the heads buffer holds.
C19_TrailAtNormalizedStoredHead ==
    FreshField =>
        \A i \in Particles : \A t \in 0..(TRAIL_LENGTH - 1) :
            PointAt(state.positions, i, t)
              = Normalized3(HeadOf(state.heads, i), state.normCenter, state.normScale)

\* C19, amended: in the field initParticles returns, all sub-points of a
\* particle's trail are the same point, the normalization of the jittered
\* point the call computed for the particle; the stored head is the
\* float32 rounding of that jittered point.
C19_TrailColocatedAtNormalizedJitter ==
    FreshField =>
        \A i \in Particles :
            /\ HeadOf(state.heads, i) = Stored3(JitteredPoint(i))
            /\ \A t \in 0..(TRAIL_LENGTH - 1) :
                  /\ PointAt(state.positions, i, t) = PointAt(state.positions, i, 0)
                  /\ PointAt(state.positions, i, t)
                       = Normalized3(JitteredPoint(i), state.normCenter, state.normScale)

\* A fresh field in which the normalized stored head of a particle is not
\* the point its trail is at.
C19_Witness ==
    /\ FreshField
    /\ PointAt(state.positions, 0, TRAIL_LENGTH - 1)
         # Normalized3(HeadOf(state.heads, 0), state.normCenter, state.normScale)
    /\ PointAt(state.positions, 0, TRAIL_LENGTH - 1) = PointAt(state.positions, 0, 0)
    /\ HeadOf(state.heads, 0) # JitteredPoint(0)


\* The point q is within 1% of normScale, on every axis, of some point of
\* the reference sample.
NearSample(q) ==
    \E k \in 1..Len(refSample) :
        \A c \in 1..3 :
            IAbs(q[c] - refSample[k][c]) <= FMul[state.normScale, Lit(1, 100)]

\* The render position of the point q before it is stored.
NormalizedExact(q) ==
    << Normalize(q[1], state.normCenter[1], state.normScale),
       Normalize(q[2], state.normCenter[2], state.normScale),
       Normalize(q[3], state.normCenter[3], state.normScale) >>

\* C20 as stated: in the field initParticles returns, every head of the
\* heads buffer is within 1% of normScale per axis of some point of the
\* reference sample, and every coordinate of the positions buffer is in
\* [-0.51, 0.51].
C20_StoredHeadsNearSample ==
    FreshField =>
        \A i \in Particles :
            /\ NearSample(HeadOf(state.heads, i))
            /\ \A t \in 0..(TRAIL_LENGTH - 1) : \A c \in 1..3 :
                  IAbs(state.positions[PosIdx(i, t, c)]) <= Lit(51, 100)

\* C20, amended: in the field initParticles returns, the jittered point
\* computed for every particle is within 1% of normScale per axis of some
\* point of the reference sample and its render position has every
\* coordinate in [-0.51, 0.51]; the heads buffer and the positions buffer
\* hold the float32 roundings of these values.
C20_JitteredPointsNearSample ==
    FreshField =>
        \A i \in Particles :
            /\ NearSample(JitteredPoint(i))
            /\ \A c \in 1..3 : IAbs(NormalizedExact(JitteredPoint(i))[c]) <= Lit(51, 100)
            /\ HeadOf(state.heads, i) = Stored3(JitteredPoint(i))
            /\ \A t \in 0..(TRAIL_LENGTH - 1) :
                  PointAt(state.positions, i, t) = Stored3(NormalizedExact(JitteredPoint(i)))

\* A fresh field of a sample with a positive extent in which the rounding of
\* the store has taken a head further than 1% of normScale from every
\* point of the sample.
C20_Witness ==
    /\ FreshField
    /\ LargestExtent > 0
    /\ \E i \in Particles :
          /\ NearSample(JitteredPoint(i))
          /\ ~NearSample(HeadOf(state.heads, i))


\* C21: between passes of loop(), metrics.present is true exactly when the
\* status is the empty string: a pass that detects a hand leaves status ""
\* and present true; a pass without a hand leaves "No hand detected" and
\* present false and keeps centerX, centerY and scale; before the first
\* pass, and once a step of the setup has failed, present is false and the
\* status is not empty.
C21_PresentIffStatusEmpty ==
    /\ [](/\ present <=> statusRef = ""
          /\ (lastPass = "none" \/ failedAt # "none") => ~present /\ statusRef # "")
    /\ [][ clock' # clock =>
             /\ lastPass' \in {"open", "fist"} => present' /\ statusRef' = ""
             /\ lastPass' = "noHand" =>
                    /\ ~present'
                    /\ statusRef' = "No hand detected"
                    /\ UNCHANGED <<mCenterX, mCenterY, mScale>> ]_vars

\* A hand was tracked away from the defaults and the latest pass found none.
C21_Witness ==
    /\ lastPass = "noHand"
    /\ lastHand # "none"
    /\ ~present
    /\ statusRef = "No hand detected"
    /\ mCenterX # Lit(5, 10)


\* The step is a pointer-up.
IsPointerUp == lastUp' # lastUp

\* C22: a pointer-up calls cycleAttractor exactly when a pointer-down is
\* recorded, the pointer is less than 6 px from it and less than 250 ms
\* have passed since it; every pointer-up clears the recorded pointer-down;
\* one press causes at most one cycle; and a pointer-up that is not such a
\* tap leaves the selection and its queue as they were.
C22_TapCyclesOncePerPress ==
    /\ [](pressCycles <= 1)
    /\ [][ IsPointerUp =>
             LET dx == lastUp'.x - pointerDownRef.x
                 dy == lastUp'.y - pointerDownRef.y
                 held == lastUp'.time - pointerDownRef.time
                 tap == /\ pointerDownRef # NullPress
                        /\ dx * dx + dy * dy < 36
                        /\ held < 250
             IN /\ pointerDownRef' = NullPress
                /\ tap => pending' = Append(pending, CycleUpdate)
                /\ ~tap => UNCHANGED <<attractorIndex, pending>>
                /\ attractorIndex' = attractorIndex ]_vars

\* A tap has cycled the selection, and a second release with no press
\* before it has changed nothing.
C22_Witness ==
    /\ pointerEvents = 3
    /\ pressCycles = 1
    /\ pointerDownRef = NullPress
    /\ lastUp.x = 106
    /\ attractorIndex = 1
    /\ pending = <<>>


\* A number in [0, 1].
InUnit(x) == isFinite(x) /\ 0 <= x /\ x <= Num(1)

\* C23: every metrics value the render loop can read has centerX, centerY
\* and scale in [0, 1], whatever passes of loop() came before, for
\* landmarks in [0, 1] and every palm size >= 0.
C23_MetricsInUnitRange ==
    InUnit(mCenterX) /\ InUnit(mCenterY) /\ InUnit(mScale)


\* The places of particle i in the positions and heads buffers.
PositionSlots(i) == { PosIdx(i, t, c) : t \in 0..(TRAIL_LENGTH - 1), c \in 1..3 }
HeadSlots(i) == { HeadIdx(i, c) : c \in 1..3 }

\* What the field st holds of particle i.
OwnSlots(st, i) ==
    << [k \in PositionSlots(i) |-> st.positions[k]], [k \in HeadSlots(i) |-> st.heads[k]] >>

\* The field st with the slots of every particle but i overwritten.
OthersCleared(st, i) ==
    [st EXCEPT !.positions = [k \in DOMAIN @ |-> IF k \in PositionSlots(i) THEN @[k] ELSE NaN],
               !.heads = [k \in DOMAIN @ |-> IF k \in HeadSlots(i) THEN @[k] ELSE NaN]]

\* The particle loop of stepParticles taken in the order o.
RECURSIVE StepInOrder(_, _, _)
StepInOrder(st, o, rnd) ==
    IF o = <<>> THEN st
    ELSE CHOOSE out \in { StepInOrder(s, Tail(o), rnd) : s \in {StepOne(st, Head(o), rnd)} }
         : TRUE

\* Orders other than 0, 1, ... of the source: from the last particle down,
\* and from particle 1 around to particle 0.
Orders ==
    { [k \in 1..PARTICLE_COUNT |-> PARTICLE_COUNT - k],
      [k \in 1..PARTICLE_COUNT |-> k % PARTICLE_COUNT] }

C25_FieldOfOneAttractor ==
    /\ [](mounted =>
            /\ state.key = KeyOf(prevIdxRef)
            /\ prevIdxRef = attractorIndex
            /\ state.normCenter = NormTable[state.key].normCenter
            /\ state.normScale = NormTable[state.key].normScale
            /\ state.colors = ColorTable[state.key]
            /\ state.alphas = AlphaTable
            /\ state.sizes = SizeTable
            /\ geometry = Attributes(state))
    /\ [][IsStepCall =>
            \E rnd \in ReseedStreams \cup {lastRnd} :
               state' = StepFrom(Field(KeyOf(attractorIndex), state.heads, state.positions),
                                 0, rnd)]_vars

\* The canvas has rebuilt the field for a second attractor and a frame has
\* stepped it.
C25_Witness ==
    /\ mounted
    /\ rebuilds > 0
    /\ steps > 0
    /\ state.key = KeyOf(attractorIndex)
    /\ state.key # KEYS[1]
    /\ state.colors # ColorTable[KEYS[1]]


\* The values whose float32 store is h.
StoredAs(h) ==
    IF ~isFinite(h) THEN {h}
    ELSE { v \in (h - F32_GRID)..(h + F32_GRID) : fround[v] = h }

BufferLengths ==
    /\ Len(state.heads) = PARTICLE_COUNT * 3
    /\ Len(state.positions) = PARTICLE_COUNT * TRAIL_LENGTH * 3

\* C26, as stated: in every state of a field, sub-point 0 of every
\* particle is the normalization of the particle's stored head, and the
\* buffers keep their lengths.
C26_HeadSlotIsNormalizedHead ==
    mounted =>
        /\ BufferLengths
        /\ \A i \in Particles :
              PointAt(state.positions, i, 0)
                = Normalized3(HeadOf(state.heads, i), state.normCenter, state.normScale)

\* C26, amended: in every state of a field the buffers keep their lengths,
\* and for every particle and coordinate sub-point 0 is the normalization,
\* stored as a float32, of a value whose float32 store is the particle's
\* head: head and sub-point 0 are two separate roundings of one value.
C26_HeadSlotAndHeadRoundOneValue ==
    mounted =>
        /\ BufferLengths
        /\ \A i \in Particles : \A c \in 1..3 :
              \E v \in StoredAs(state.heads[HeadIdx(i, c)]) :
                 state.positions[PosIdx(i, 0, c)]
                   = fround[Normalize(v, state.normCenter[c], state.normScale)]

\* A field that has been stepped, with a reseed, and whose sub-point 0 is
\* not the normalization of the stored head.
C26_Witness ==
    /\ steps >= 2
    /\ reseeded
    /\ \E i \in Particles :
          PointAt(state.positions, i, 0)
            # Normalized3(HeadOf(state.heads, i), state.normCenter, state.normScale)


\* The step is a pass of loop() that classified a detected hand as a fist.
IsFistFrame == clock' # clock /\ lastPass' = "fist"

\* C27: a fist whose first frame comes 800 ms or less after the previous
\* invocation of onFist sets the latch without invoking onFist; while the
\* latch is set no frame invokes onFist, however long ago the previous
\* invocation was; and only a hand-detected frame that is not a fist
\* clears the latch.
C27_EarlyFistNeverTriggers ==
    /\ [][ (IsFistFrame /\ ~wasFistRef /\ lastCall >= 0
              /\ clock' - lastCall <= COOLDOWN_MS)
            => (fistCalls' = fistCalls /\ wasFistRef' /\ heldCalls' = 0) ]_vars
    /\ [][ wasFistRef => fistCalls' = fistCalls ]_vars
    /\ [][ (wasFistRef /\ ~wasFistRef') => (clock' # clock /\ lastPass' = "open") ]_vars

\* A fist that began inside the window is still held, across a frame
\* without a hand, after the window has expired, and has not triggered.
C27_Witness ==
    /\ fistCalls = 1
    /\ lastHand = "fist"
    /\ wasFistRef
    /\ heldCalls = 0
    /\ lastPass = "fist"
    /\ clock - lastCall > 2 * COOLDOWN_MS


\* The step is the head of a frame of animate, up to its step loop.
BeginsFrame == frame = "idle" /\ frame' = "stepping"

\* n is Math.floor(accum / 0.008), or 3 when that is more than 3.
IsCappedQuotient(n, accum) ==
    /\ n \in 0..3
    /\ n * Lit(8, 1000) <= accum
    /\ n < 3 => accum < (n + 1) * Lit(8, 1000)

C29_SceneStaysInRange ==
    (InUnit(mScale) /\ InUnit(mCenterX) /\ InUnit(mCenterY)) =>
        /\ Lit(6, 10) <= curScale /\ curScale <= Lit(24, 10)
        /\ IAbs(curBiasY) <= Lit(6, 10)
        /\ IAbs(curBiasX) <= Lit(4, 10)

\* After frames with the hand held at one end of the range, where the
\* scale has settled next to 2.4, the hand has moved to the other end and a
\* frame has pulled the scale and the biases back.
C29_Witness ==
    /\ frame = "idle"
    /\ steps > 0
    /\ present
    /\ mScale = 0
    /\ curScale > Lit(22, 10)
    /\ curScale < ScaleSettled(Num(1))
    /\ curBiasY > Lit(5, 10)
    /\ curBiasX > Lit(3, 10)


\* C30: for every attractor and every state, rk4 of lib/attractors.ts and
\* rk4Step of AttractorCanvas give the same next state in exact arithmetic:
\* every step either integrator takes is the step the other would take from
\* the same state, so the two trajectories from one starting state are equal
\* whenever they have taken the same number of steps.
C30_IntegratorsAgreeExactly ==
    /\ [](orbit.cloudN = orbit.liveN => orbit.cloud = orbit.live)
    /\ [][/\ orbit'.cloudN # orbit.cloudN =>
               orbit'.cloud = LET next == rk4StepExact(orbit.cloud, orbit.key)
                              IN  <<next[1], next[2], next[3]>>
          /\ orbit'.liveN # orbit.liveN =>
               orbit'.live = rk4(orbit.live, orbit.key)]_vars

\* Both integrators have taken two or more steps of the aizawa attractor
\* from its initial state and stand as far as each other, away from the
\* start.
C30_Witness ==
    /\ orbit.key = "aizawa"
    /\ orbit.cloudN >= 2
    /\ orbit.liveN = orbit.cloudN
    /\ orbit.cloud # initialExact("aizawa")

=============================================================================
